---------------------------- MODULE Spec2Model ----------------------------
(***************************************************************************)
(* Flow-assembly engine of GEOSX (TwoPhaseBase, SinglePhaseFVMKernels,     *)
(* DamageVolDev): the finite-volume flux kernels, the aperture integration *)
(* rules, the Newton bounds check, the phase-to-row map and the            *)
(* strain-energy history update.                                           *)
(*                                                                         *)
(* real64 quantities are modelled as exact rationals <<n, d>> (d > 0, in   *)
(* lowest terms): the formulas are the source's, the rounding of IEEE      *)
(* arithmetic is not modelled.                                             *)
(***************************************************************************)
EXTENDS Integers, Sequences, FiniteSets, TLC

VARIABLES
  \* FluxKernelHelper::apertureForPermeablityCalculation
  aper0,            \* beginning-of-step aperture (argument)
  aper,             \* end-of-step aperture (argument)
  aperTerm,         \* [INTEGRATION_OPTION -> result or NoVal]
  dAperTerm_dAper,  \* [INTEGRATION_OPTION -> result or NoVal]
  \* FluxKernel::Compute / FluxKernel::ComputeJunction: arguments
  stencilElementIndices, \* the connection: slot -> element index
  stencilWeights,        \* slot -> transmissibility weight
  dt,
  meanPermCoeff,
  tipLoc,                \* HydrofractureSolver::getConvergedTipLoc()
  viscosity,             \* defaultViscosity of the fluid
  \* ... and results
  kernel,                \* the launch: the stencil awaiting its kernel,
                         \* then the kernel that filled the buffers
  flux,                  \* slot -> local flux
  fluxJacobian,          \* slot -> slot -> dFlux/dPres
  dFlux_dAperture,       \* slot -> slot -> dFlux/dAperture
  pairLog,               \* per processed pair: the values the kernel derived
  \* TwoPhaseBase::InitializePreSubGroups
  fluidPhaseNames,       \* fluid->phaseName( ip ), ip = 0 ..
  relPermPhaseNames,     \* relPerm->phaseName( ip ); no name: no such model
  m_phaseToRow,          \* phase index -> row offset in the residual
  initialization,        \* "pending", "done" or the GEOSX_ERROR raised
  \* TwoPhaseBase::CheckSystemSolution
  elemOwner,             \* cell -> the rank that owns it
  elemGhosted,           \* cell -> the ranks holding a ghost copy of it
  m_pressure,            \* cell -> pressure
  m_deltaPressure,       \* cell -> accumulated pressure update
  m_phaseSat,            \* cell -> phase -> saturation
  m_deltaPhaseSat,       \* cell -> phase -> accumulated saturation update
  solution,              \* cell -> column offset -> Newton update
  scalingFactor,         \* the scaling factor of the last check
  localCheck,            \* rank -> localCheck of the last check
  globalCheck,           \* rank -> the value CheckSystemSolution returned
  \* DamageVolDevUpdates::calculateActiveStrainEnergyDensity
  m_stress,              \* point (k, q) -> the stress components 0, 1, 2
  baseStrainEnergyDensity, \* point -> UPDATE_BASE::calculateStrainEnergyDensity
  m_strainEnergyDensity, \* point -> the history field
  damageCall,            \* the last call: its point, sed and returned value
  \* TwoPhaseBase: the time step
  commRank,              \* the rank of the process that runs the step
  m_newPhaseSat,           \* cell -> phase -> phaseSat + deltaPhaseSat
  m_pvMult,              \* cell -> pore volume multiplier of the solid
  m_phaseDens,           \* cell -> phase -> density of the fluid
  phaseRelPerm,          \* cell -> phase -> relative permeability
  m_phaseMob,            \* cell -> phase -> mobility
  m_porosityOld,         \* cell -> porosity at the old time level
  m_phaseDensOld,        \* cell -> phase -> density at the old time level
  systemLog,             \* what the last AssembleSystem did to matrix and
                         \* rhs, in order
  solverStep,            \* "idle", or the part of SolverStep that runs
  lastCall,              \* the solver function that ran last
  m_numNewtonIterations, \* solution updates applied in this step
  cycleNumber,           \* the steps begun
  dt_return,             \* SolverStep's local: what NonlinearImplicitStep
                         \* returned
  solverStepReturn,      \* what the last SolverStep returned
  m_timeIntegrationOption, \* the time integration option of the flow solver
  optionCalls,           \* the strings SetTimeIntegrationOption was called
                         \* with, in order
  optionError            \* NoVal, or the error the last call raised

aperVars == <<aper0, aper, aperTerm, dAperTerm_dAper>>

fluxArgs == <<stencilElementIndices, stencilWeights, dt, meanPermCoeff,
              tipLoc, viscosity>>

fluxVars == <<stencilElementIndices, stencilWeights, dt, meanPermCoeff,
              tipLoc, viscosity, kernel, flux, fluxJacobian,
              dFlux_dAperture, pairLog>>

mapVars == <<fluidPhaseNames, relPermPhaseNames, m_phaseToRow,
             initialization>>

checkArgs == <<elemOwner, elemGhosted, m_pressure, m_deltaPressure,
               m_phaseSat, m_deltaPhaseSat, solution>>

checkVars == <<elemOwner, elemGhosted, m_pressure, m_deltaPressure,
               m_phaseSat, m_deltaPhaseSat, solution, scalingFactor,
               localCheck, globalCheck>>

damageVars == <<m_stress, baseStrainEnergyDensity, m_strainEnergyDensity,
                damageCall>>

stepVars == <<commRank, m_newPhaseSat, m_pvMult, m_phaseDens, phaseRelPerm,
              m_phaseMob, m_porosityOld, m_phaseDensOld, systemLog,
              solverStep, lastCall, m_numNewtonIterations, cycleNumber,
              dt_return, solverStepReturn>>

optionVars == <<m_timeIntegrationOption, optionCalls, optionError>>

vars == <<aper0, aper, aperTerm, dAperTerm_dAper,
          stencilElementIndices, stencilWeights, dt, meanPermCoeff,
          tipLoc, viscosity, kernel, flux, fluxJacobian,
          dFlux_dAperture, pairLog,
          fluidPhaseNames, relPermPhaseNames, m_phaseToRow, initialization,
          elemOwner, elemGhosted, m_pressure, m_deltaPressure,
          m_phaseSat, m_deltaPhaseSat, solution, scalingFactor,
          localCheck, globalCheck,
          m_stress, baseStrainEnergyDensity, m_strainEnergyDensity,
          damageCall,
          commRank, m_newPhaseSat, m_pvMult, m_phaseDens, phaseRelPerm,
          m_phaseMob, m_porosityOld, m_phaseDensOld, systemLog,
          solverStep, lastCall, m_numNewtonIterations, cycleNumber,
          dt_return, solverStepReturn,
          m_timeIntegrationOption, optionCalls, optionError>>

-----------------------------------------------------------------------------
(* real64 arithmetic, exact *)

NoVal == "none"

Abs(x) == IF x < 0 THEN -x ELSE x

RECURSIVE GCD(_, _)
GCD(a, b) == IF b = 0 THEN a ELSE GCD(b, a % b)

\* the rational n/d in lowest terms with a positive denominator (d # 0)
Rat(n, d) ==
  LET g == GCD(Abs(n), Abs(d))
      s == IF d < 0 THEN -1 ELSE 1
  IN  <<(s * n) \div g, (s * d) \div g>>

R(n) == <<n, 1>>

RAdd(x, y) == Rat(x[1] * y[2] + y[1] * x[2], x[2] * y[2])
RNeg(x)    == <<-x[1], x[2]>>
RSub(x, y) == RAdd(x, RNeg(y))
RMul(x, y) == Rat(x[1] * y[1], x[2] * y[2])
RDiv(x, y) == Rat(x[1] * y[2], x[2] * y[1])
RLt(x, y)  == x[1] * y[2] < y[1] * x[2]
RGe(x, y)  == ~RLt(x, y)
RGt(x, y)  == RLt(y, x)

\* "v evaluated once, then Body of it": a local value of the source
With(v, Body(_)) == CHOOSE r \in {Body(x) : x \in {v}} : TRUE

Zero    == R(0)
One     == R(1)
Half    == Rat(1, 2)
Quarter == Rat(1, 4)

-----------------------------------------------------------------------------
(* FluxKernelHelper::apertureForPermeablityCalculation< INTEGRATION_OPTION > *)

\* the apertures drawn: the multiples of 1/AperScale up to MaxAper/AperScale
MaxAper == 4
AperScale == 2
Apertures == {Rat(n, AperScale) : n \in (0 - MaxAper) .. MaxAper}
IntegrationOptions == {0, 1, 2}

\* option 0: forward Euler
apertureForPermeablityCalculation0(a0, a) ==
  [aperTerm        |-> RMul(RMul(a0, a0), a0),
   dAperTerm_dAper |-> Zero]

\* option 1 with the term aper0*aper*aper of the sum left out
apertureForPermeablityCalculation1Short(a0, a) ==
  [aperTerm        |-> RMul(Quarter,
                            RAdd(RAdd(RMul(RMul(a0, a0), a0),
                                      RMul(RMul(a0, a0), a)),
                                 RMul(RMul(a, a), a))),
   dAperTerm_dAper |-> RMul(Quarter,
                            RAdd(RAdd(RMul(a0, a0),
                                      RMul(RMul(R(2), a0), a)),
                                 RMul(RMul(R(3), a), a)))]

\* option 1: exact integral of the cubic term
apertureForPermeablityCalculation1(a0, a) ==
  [aperTerm        |-> RMul(Quarter,
                            RAdd(RAdd(RAdd(RMul(RMul(a0, a0), a0),
                                           RMul(RMul(a0, a0), a)),
                                      RMul(RMul(a0, a), a)),
                                 RMul(RMul(a, a), a))),
   dAperTerm_dAper |-> RMul(Quarter,
                            RAdd(RAdd(RMul(a0, a0),
                                      RMul(RMul(R(2), a0), a)),
                                 RMul(RMul(R(3), a), a)))]

\* option 2 with the derivative of a square
apertureForPermeablityCalculation2Square(a0, a) ==
  [aperTerm        |-> RMul(RMul(a, a), a),
   dAperTerm_dAper |-> RMul(RMul(R(2), a), a)]

\* option 2: backward Euler
apertureForPermeablityCalculation2(a0, a) ==
  [aperTerm        |-> RMul(RMul(a, a), a),
   dAperTerm_dAper |-> RMul(RMul(R(3), a), a)]

apertureForPermeablityCalculation(opt, a0, a) ==
  CASE opt = 0 -> apertureForPermeablityCalculation0(a0, a)
    [] opt = 1 -> apertureForPermeablityCalculation1(a0, a)
    [] opt = 2 -> apertureForPermeablityCalculation2(a0, a)

-----------------------------------------------------------------------------
(* The element fields the flux kernels read (const views).  The elements   *)
(* follow a two-level covering design: every pair of fields takes all four *)
(* level combinations on some element.                                     *)

NumElems == 12
Elems == 0 .. (NumElems - 1)

Design == <<1, 1, 0, 1, 1, 1, 0, 0, 0, 1, 0>>

Level(e, j) == IF e >= 11 THEN 0 ELSE Design[((j + e) % 11) + 1]

pres        == [e \in Elems |-> R(1 + Level(e, 0))]
dPres       == [e \in Elems |-> R(Level(e, 1))]
gravCoef    == [e \in Elems |-> R(Level(e, 2))]
dens        == [e \in Elems |-> R(1 + Level(e, 3))]
dDens_dPres == [e \in Elems |-> R(Level(e, 4))]
mob         == [e \in Elems |-> R(1 + 2 * Level(e, 5))]
dMob_dPres  == [e \in Elems |-> R(Level(e, 6))]
aperture0   == [e \in Elems |-> R(1 + Level(e, 7))]
aperture    == [e \in Elems |-> R(1 + Level(e, 8))]
transmissibility == [e \in Elems |-> R(1 + Level(e, 9))]

\* the two faces of each face element, and the trailing faces of the
\* surface generator
faceMap == [e \in Elems |-> <<2 * e, 2 * e + 1>>]
trailingFaces == {2 * e + 1 : e \in {x \in Elems : Level(x, 10) = 1}}

-----------------------------------------------------------------------------
(* sums over slots 0 .. n-1 *)

RECURSIVE RSum(_, _)
RSum(f, n) == IF n = 0 THEN Zero ELSE RAdd(RSum(f, n - 1), f[n - 1])

Slots(n) == 0 .. (n - 1)

ZeroVec(n) == [k \in Slots(n) |-> Zero]
ZeroMat(n) == [k \in Slots(n) |-> [l \in Slots(n) |-> Zero]]

-----------------------------------------------------------------------------
(* FluxKernel::Compute, the two-point kernels *)

NUM_POINT_IN_FLUX == 2

\* upwinding with the tie sent to slot 1
UpwindSlotStrict(potDif) == IF RGt(potDif, Zero) THEN 0 ELSE 1

\* localIndex const k_up = (potDif >= 0) ? 0 : 1;  (the two Compute variants
\* and every pair of ComputeJunction)
UpwindSlot(potDif) == IF RGe(potDif, Zero) THEN 0 ELSE 1

\* the local flux vector with flux[1] a copy of flux[0]
PopulateLocalFluxCopied(dtArg, fluxVal) ==
  [k \in Slots(2) |-> RMul(dtArg, fluxVal)]

\* the local flux vector without the time step
PopulateLocalFluxNoDt(dtArg, fluxVal) ==
  [k \in Slots(2) |-> IF k = 0 THEN fluxVal ELSE RNeg(fluxVal)]

\* flux[0] = dt * fluxVal; flux[1] = -flux[0];
PopulateLocalFlux(dtArg, fluxVal) ==
  With(RMul(dtArg, fluxVal),
       LAMBDA flux0 : [k \in Slots(2) |-> IF k = 0 THEN flux0
                                          ELSE RNeg(flux0)])

\* the body the two variants share; they differ in densWeight only
ComputeTwoPoint(densWeight, stencilSize, sei, weights, dtArg) ==
  LET numElems == NUM_POINT_IN_FLUX
      densMean == RSum([ke \in Slots(numElems) |->
                          RMul(densWeight, dens[sei[ke]])], numElems)
      dDensMean_dP == [ke \in Slots(stencilSize) |->
                         IF ke < numElems
                         THEN RMul(densWeight, dDens_dPres[sei[ke]])
                         ELSE Zero]
      sumWeightGrav == RSum([ke \in Slots(stencilSize) |->
                               RMul(weights[ke], gravCoef[sei[ke]])],
                            stencilSize)
      potDif == RSum([ke \in Slots(stencilSize) |->
                        RMul(weights[ke],
                             RSub(RAdd(pres[sei[ke]], dPres[sei[ke]]),
                                  RMul(densMean, gravCoef[sei[ke]])))],
                     stencilSize)
      k_up == UpwindSlot(potDif)
      ei_up == sei[k_up]
      mobility == mob[ei_up]
      dMobility_dP == dMob_dPres[ei_up]
      fluxVal == RMul(mobility, potDif)
      dFlux_dP0 == [ke \in Slots(stencilSize) |->
                      RMul(mobility,
                           RSub(weights[ke],
                                RMul(dDensMean_dP[ke], sumWeightGrav)))]
      dFlux_dP == [dFlux_dP0 EXCEPT
                     ![k_up] = RAdd(@, RMul(dMobility_dP, potDif))]
      flux0 == RMul(dtArg, fluxVal)
      jac0 == [ke \in Slots(stencilSize) |-> RMul(dtArg, dFlux_dP[ke])]
  IN  [flux |-> PopulateLocalFlux(dtArg, fluxVal),
       fluxJacobian |-> [k \in Slots(2) |->
                           IF k = 0 THEN jac0
                           ELSE [ke \in Slots(stencilSize) |-> RNeg(jac0[ke])]],
       log |-> <<[k |-> <<0, 1>>, k_up |-> k_up, ei_up |-> ei_up,
                  potDif |-> potDif, mobility |-> mobility,
                  dMobility_dP |-> dMobility_dP, fluxVal |-> flux0,
                  tip |-> FALSE,
                  tipElmtIndex |-> NoVal, channelElmtIndex |-> NoVal,
                  weight |-> One,
                  fluxAdd |-> PopulateLocalFlux(dtArg, fluxVal)]>>]

\* the general version with the mobility-derivative term added at every
\* slot of row 0 instead of the upwind slot only
ComputeCrossRegionUpwindTermEverywhere(stencilSize, sei, weights, dtArg) ==
  With(ComputeTwoPoint(Half, stencilSize, sei, weights, dtArg),
       LAMBDA r :
         LET p == r.log[1]
             extra == RMul(dtArg, RMul(p.dMobility_dP, p.potDif))
             row0 == [ke \in Slots(stencilSize) |->
                        IF ke = p.k_up THEN r.fluxJacobian[0][ke]
                        ELSE RAdd(r.fluxJacobian[0][ke], extra)]
         IN  [r EXCEPT !.fluxJacobian =
                [k \in Slots(2) |->
                   IF k = 0 THEN row0
                   ELSE [ke \in Slots(stencilSize) |-> RNeg(row0[ke])]]])

\* the general version (different element regions): densWeight = 0.5
ComputeCrossRegion(stencilSize, sei, weights, dtArg) ==
  ComputeTwoPoint(Half, stencilSize, sei, weights, dtArg)

\* the version for fluxes within a region with densWeight = 1.0
ComputeSameRegionUnitWeights(stencilSize, sei, weights, dtArg) ==
  ComputeTwoPoint(One, stencilSize, sei, weights, dtArg)

\* the version for fluxes within a region: densWeight = 1.0 / numElems
ComputeSameRegion(stencilSize, sei, weights, dtArg) ==
  ComputeTwoPoint(RDiv(One, R(NUM_POINT_IN_FLUX)), stencilSize, sei,
                  weights, dtArg)

-----------------------------------------------------------------------------
(* FluxKernel::ComputeJunction *)

MeshSize == R(1)
ViscosityThreshold == Rat(2, 1000)

\* edgeLength/12.0 * pow(averageGap, 3.0) * gradP of the tip asymptote: a
\* value the mesh, surface generator and hydrofracture solver determine
TipAsymptote == R(3)

Range(f) == {f[i] : i \in DOMAIN f}

\* for every trailing face, the first face element holding it
tipElements ==
  {i \in Elems :
     \E trailingFace \in trailingFaces :
        /\ trailingFace \in Range(faceMap[i])
        /\ \A i2 \in Elems : i2 < i => trailingFace \notin Range(faceMap[i2])}

\* the pairs (k[0], k[1]) in the order the two loops visit them
RECURSIVE PairsFrom(_, _, _)
PairsFrom(k0, k1, n) ==
  IF k0 >= n - 1 THEN <<>>
  ELSE IF k1 >= n THEN PairsFrom(k0 + 1, k0 + 2, n)
  ELSE <<<<k0, k1>>>> \o PairsFrom(k0, k1 + 1, n)

Pairs(n) == PairsFrom(0, 1, n)

\* what a read past the end of the two-entry arrays ei, k and
\* modifieddFlux_dP returns during one call
Junks(n) == [inTip : BOOLEAN, k : Slots(n), real : {Zero, R(7)}]
NoJunk == [inTip |-> FALSE, k |-> 0, real |-> Zero]

\* the loop "for i < numFluxElems" classifying ei[i]; ei and k hold two
\* entries (here ei[1], ei[2] and k[1], k[2]), so every i >= 2 reads past
\* their end
RECURSIVE TipClassification(_, _, _, _, _)
TipClassification(i, ei, k, tips, junk) ==
  IF i = 0
  THEN [tempCount |-> 0, tipElmtIndex |-> NoVal, channelElmtIndex |-> NoVal,
        tipAssigned |-> FALSE, channelAssigned |-> FALSE, reads |-> {}]
  ELSE LET j == i - 1
           found == IF j < 2 THEN ei[j + 1] \in tips ELSE junk.inTip
           kj == IF j < 2 THEN k[j + 1] ELSE junk.k
       IN  With(TipClassification(i - 1, ei, k, tips, junk),
                LAMBDA prev :
                  IF found
                  THEN [prev EXCEPT !.tempCount = @ + 1,
                                    !.tipElmtIndex = kj,
                                    !.tipAssigned = TRUE,
                                    !.reads = @ \cup {j}]
                  ELSE [prev EXCEPT !.channelElmtIndex = kj,
                                    !.channelAssigned = TRUE,
                                    !.reads = @ \cup {j}])

TipGateOpen(tipLocArg, viscArg) ==
  RGt(tipLocArg, RMul(One, MeshSize)) /\ RGe(viscArg, ViscosityThreshold)

\* The body of the inner loop for the pair k = <<k[0], k[1]>>, in the
\* source's order.  a holds what the kernel set up before the loops;
\* two-entry arrays are tuples.

\* the blended weight with the arithmetic part left out of the derivatives
PairWeightHarmonicDerivative(k, a) ==
  LET k0 == k[1]
      k1 == k[2]
      c == a.c
      wa0 == RMul(a.weights[k0], a.aperTerm[k0 + 1])
      wa1 == RMul(a.weights[k1], a.aperTerm[k1 + 1])
  IN  With(RDiv(RMul(wa0, wa1), a.sumOfWeights),
           LAMBDA harmonicWeight :
             [harmonicWeight |-> harmonicWeight,
              weight |->
                RAdd(RMul(c, harmonicWeight),
                     RMul(RMul(RSub(One, c), Quarter), RAdd(wa0, wa1))),
              dWeight_dAper |->
                <<RMul(c, RMul(RMul(RSub(RDiv(One, a.aperTerm[k0 + 1]),
                                         RDiv(a.weights[k0], a.sumOfWeights)),
                                    harmonicWeight),
                               a.dAperTerm_dAper[k0 + 1])),
                  RMul(c, RMul(RMul(RSub(RDiv(One, a.aperTerm[k1 + 1]),
                                         RDiv(a.weights[k1], a.sumOfWeights)),
                                    harmonicWeight),
                               a.dAperTerm_dAper[k1 + 1]))>>])

\* the blended weight of the pair and its aperture derivatives
PairWeight(k, a) ==
  LET k0 == k[1]
      k1 == k[2]
      c == a.c
      wa0 == RMul(a.weights[k0], a.aperTerm[k0 + 1])
      wa1 == RMul(a.weights[k1], a.aperTerm[k1 + 1])
  IN  With(RDiv(RMul(wa0, wa1), a.sumOfWeights),
           LAMBDA harmonicWeight :
             LET dHarmonicWeight_dAper0 ==
                   RMul(RMul(RSub(RDiv(One, a.aperTerm[k0 + 1]),
                                  RDiv(a.weights[k0], a.sumOfWeights)),
                             harmonicWeight),
                        a.dAperTerm_dAper[k0 + 1])
                 dHarmonicWeight_dAper1 ==
                   RMul(RMul(RSub(RDiv(One, a.aperTerm[k1 + 1]),
                                  RDiv(a.weights[k1], a.sumOfWeights)),
                             harmonicWeight),
                        a.dAperTerm_dAper[k1 + 1])
             IN  [harmonicWeight |-> harmonicWeight,
                  weight |->
                    RAdd(RMul(c, harmonicWeight),
                         RMul(RMul(RSub(One, c), Quarter), RAdd(wa0, wa1))),
                  dWeight_dAper |->
                    <<RAdd(RMul(c, dHarmonicWeight_dAper0),
                           RMul(RMul(RMul(Quarter, RSub(One, c)),
                                     a.weights[k0]),
                                a.dAperTerm_dAper[k0 + 1])),
                      RAdd(RMul(c, dHarmonicWeight_dAper1),
                           RMul(RMul(RMul(Quarter, RSub(One, c)),
                                     a.weights[k1]),
                                a.dAperTerm_dAper[k1 + 1]))>>])

\* average density, potential difference and upwinding of the pair
PairUpwind(k, a) ==
  LET e0 == a.sei[k[1]]
      e1 == a.sei[k[2]]
      densMean == RMul(Half, RAdd(dens[e0], dens[e1]))
      dGrav == RSub(gravCoef[e0], gravCoef[e1])
  IN  With(RSub(RSub(RAdd(pres[e0], dPres[e0]), RAdd(pres[e1], dPres[e1])),
                RMul(densMean, dGrav)),
           LAMBDA potDif :
             With(UpwindSlot(potDif),
                  LAMBDA k_up :
                    [ei |-> <<e0, e1>>,
                     dDensMean_dP |-> <<RMul(Half, dDens_dPres[e0]),
                                        RMul(Half, dDens_dPres[e1])>>,
                     dGrav |-> dGrav,
                     potDif |-> potDif,
                     k_up |-> k_up,
                     ei_up |-> a.sei[k[k_up + 1]],
                     mobility |-> mob[a.sei[k[k_up + 1]]],
                     dMobility_dP |-> dMob_dPres[a.sei[k[k_up + 1]]]]))

\* the standard flux and derivatives, then the tip override
PairFlux(k, a, w, u) ==
  LET mw == RMul(u.mobility, w.weight)
      fluxVal0 == RMul(RMul(mw, u.potDif), a.dt)
      upTerm == RMul(RMul(RMul(u.dMobility_dP, w.weight), u.potDif), a.dt)
      dFlux_dP0 ==
        RAdd(RMul(RMul(mw, RSub(One, RMul(u.dDensMean_dP[1], u.dGrav))),
                  a.dt),
             IF u.k_up = 0 THEN upTerm ELSE Zero)
      dFlux_dP1 ==
        RAdd(RMul(RMul(mw, RSub(RNeg(One), RMul(u.dDensMean_dP[2], u.dGrav))),
                  a.dt),
             IF u.k_up = 1 THEN upTerm ELSE Zero)
      dFlux_dAper0 ==
        RMul(RMul(RMul(u.mobility, w.dWeight_dAper[1]), u.potDif), a.dt)
      dFlux_dAper1 ==
        RMul(RMul(RMul(u.mobility, w.dWeight_dAper[2]), u.potDif), a.dt)
      tipAmount == RMul(RMul(a.dt, u.mobility), TipAsymptote)
      tipDeriv == RMul(RMul(a.dt, u.dMobility_dP), TipAsymptote)
  IN  With(IF a.gateOpen
           THEN TipClassification(a.n, u.ei, k, a.tipElements, a.junk)
           ELSE [tempCount |-> 0, tipElmtIndex |-> NoVal,
                 channelElmtIndex |-> NoVal, tipAssigned |-> FALSE,
                 channelAssigned |-> FALSE, reads |-> {}],
           LAMBDA cls :
             IF a.gateOpen /\ cls.tempCount = 1
             THEN [k |-> k, k_up |-> u.k_up, ei_up |-> u.ei_up,
                   potDif |-> u.potDif, mobility |-> u.mobility,
                   dMobility_dP |-> u.dMobility_dP, weight |-> w.weight,
                   dWeight_dAper |-> w.dWeight_dAper,
                   aperTerm |-> a.aperTerm,
                   dAperTerm_dAper |-> a.dAperTerm_dAper,
                   standard |-> [fluxVal |-> fluxVal0,
                                 dFlux_dP |-> <<dFlux_dP0, dFlux_dP1>>,
                                 dFlux_dAper |->
                                   <<dFlux_dAper0, dFlux_dAper1>>],
                   tip |-> TRUE,
                   tipElmtIndex |-> cls.tipElmtIndex,
                   channelElmtIndex |-> cls.channelElmtIndex,
                   \* ei[i], k[i] of the loop, then ei[...] and
                   \* modifieddFlux_dP[...] at both slot indices
                   indexReads |-> cls.reads \cup {cls.tipElmtIndex,
                                                  cls.channelElmtIndex},
                   indicesAssigned |-> cls.tipAssigned
                                         /\ cls.channelAssigned,
                   modifiedFluxVal |-> tipAmount,
                   \* modifieddFlux_dP = {0, 0}, then entry k_up is set
                   modifieddFlux_dP |->
                     <<IF u.k_up = 0 THEN tipDeriv ELSE Zero,
                       IF u.k_up = 1 THEN tipDeriv ELSE Zero>>,
                   fluxVal |-> Zero,
                   dFlux_dP |-> <<Zero, Zero>>,
                   dFlux_dAper |-> <<Zero, Zero>>]
             ELSE [k |-> k, k_up |-> u.k_up, ei_up |-> u.ei_up,
                   potDif |-> u.potDif, mobility |-> u.mobility,
                   dMobility_dP |-> u.dMobility_dP, weight |-> w.weight,
                   dWeight_dAper |-> w.dWeight_dAper,
                   aperTerm |-> a.aperTerm,
                   dAperTerm_dAper |-> a.dAperTerm_dAper,
                   standard |-> [fluxVal |-> fluxVal0,
                                 dFlux_dP |-> <<dFlux_dP0, dFlux_dP1>>,
                                 dFlux_dAper |->
                                   <<dFlux_dAper0, dFlux_dAper1>>],
                   tip |-> FALSE,
                   tipElmtIndex |-> NoVal,
                   channelElmtIndex |-> NoVal,
                   indexReads |-> cls.reads,
                   indicesAssigned |-> TRUE,
                   modifiedFluxVal |-> Zero,
                   modifieddFlux_dP |-> <<Zero, Zero>>,
                   fluxVal |-> fluxVal0,
                   dFlux_dP |-> <<dFlux_dP0, dFlux_dP1>>,
                   dFlux_dAper |-> <<dFlux_dAper0, dFlux_dAper1>>])

JunctionPair(k, a) ==
  With(PairWeight(k, a),
       LAMBDA w : With(PairUpwind(k, a), LAMBDA u : PairFlux(k, a, w, u)))

RECURSIVE JunctionPairs(_, _, _)
JunctionPairs(m, ps, a) ==
  IF m = 0 THEN <<>>
  ELSE Append(JunctionPairs(m - 1, ps, a), JunctionPair(ps[m], a))

Term(cond, v) == IF cond THEN v ELSE Zero

\* modifieddFlux_dP[idx] with idx a slot number
ReadModified(p, idx, junk) ==
  IF idx < 2 THEN p.modifieddFlux_dP[idx + 1] ELSE junk.real

\* the pair's flux added to both of its slots
FluxAddBothPlus(p, s) ==
  RAdd(Term(p.tip /\ s = p.channelElmtIndex, p.modifiedFluxVal),
       RAdd(Term(s = p.k[1], p.fluxVal), Term(s = p.k[2], p.fluxVal)))

\* what the pair p adds to flux[s]
FluxAdd(p, s) ==
  RAdd(Term(p.tip /\ s = p.channelElmtIndex, p.modifiedFluxVal),
       RSub(Term(s = p.k[1], p.fluxVal), Term(s = p.k[2], p.fluxVal)))

\* the pair's pressure derivatives added to both of its rows
JacobianAddBothPlus(p, r, c, junk) ==
  RAdd(RAdd(Term(p.tip /\ r = p.channelElmtIndex /\ c = p.tipElmtIndex,
                 ReadModified(p, p.tipElmtIndex, junk)),
            Term(p.tip /\ r = p.channelElmtIndex /\ c = p.channelElmtIndex,
                 ReadModified(p, p.channelElmtIndex, junk))),
       RAdd(RAdd(Term(r = p.k[1] /\ c = p.k[1], p.dFlux_dP[1]),
                 Term(r = p.k[1] /\ c = p.k[2], p.dFlux_dP[2])),
            RAdd(Term(r = p.k[2] /\ c = p.k[1], p.dFlux_dP[1]),
                 Term(r = p.k[2] /\ c = p.k[2], p.dFlux_dP[2]))))

\* what the pair p adds to fluxJacobian[r][c]
JacobianAdd(p, r, c, junk) ==
  RAdd(RAdd(Term(p.tip /\ r = p.channelElmtIndex /\ c = p.tipElmtIndex,
                 ReadModified(p, p.tipElmtIndex, junk)),
            Term(p.tip /\ r = p.channelElmtIndex /\ c = p.channelElmtIndex,
                 ReadModified(p, p.channelElmtIndex, junk))),
       RSub(RAdd(Term(r = p.k[1] /\ c = p.k[1], p.dFlux_dP[1]),
                 Term(r = p.k[1] /\ c = p.k[2], p.dFlux_dP[2])),
            RAdd(Term(r = p.k[2] /\ c = p.k[1], p.dFlux_dP[1]),
                 Term(r = p.k[2] /\ c = p.k[2], p.dFlux_dP[2]))))

\* what the pair p adds to dFlux_dAperture[r][c]
ApertureAdd(p, r, c) ==
  RSub(RAdd(Term(r = p.k[1] /\ c = p.k[1], p.dFlux_dAper[1]),
            Term(r = p.k[1] /\ c = p.k[2], p.dFlux_dAper[2])),
       RAdd(Term(r = p.k[2] /\ c = p.k[1], p.dFlux_dAper[1]),
            Term(r = p.k[2] /\ c = p.k[2], p.dFlux_dAper[2])))

RECURSIVE SumFlux(_, _, _)
SumFlux(m, recs, s) ==
  IF m = 0 THEN Zero ELSE RAdd(SumFlux(m - 1, recs, s), FluxAdd(recs[m], s))

RECURSIVE SumJacobian(_, _, _, _, _)
SumJacobian(m, recs, r, c, junk) ==
  IF m = 0 THEN Zero
  ELSE RAdd(SumJacobian(m - 1, recs, r, c, junk),
            JacobianAdd(recs[m], r, c, junk))

RECURSIVE SumAperture(_, _, _, _)
SumAperture(m, recs, r, c) ==
  IF m = 0 THEN Zero
  ELSE RAdd(SumAperture(m - 1, recs, r, c), ApertureAdd(recs[m], r, c))

\* the aperture terms by rule (1), which reads the start-of-step aperture
RECURSIVE ApertureTermsRule1(_, _, _)
ApertureTermsRule1(m, sei, a0) ==
  IF m = 0 THEN <<>>
  ELSE Append(ApertureTermsRule1(m - 1, sei, a0),
              apertureForPermeablityCalculation(1, a0[sei[m - 1]],
                                                aperture[sei[m - 1]]))

\* a0 is the view aperture0 the kernel is called with
RECURSIVE ApertureTerms(_, _, _)
ApertureTerms(m, sei, a0) ==
  IF m = 0 THEN <<>>
  ELSE Append(ApertureTerms(m - 1, sei, a0),
              apertureForPermeablityCalculation(2, a0[sei[m - 1]],
                                                aperture[sei[m - 1]]))

RECURSIVE SumOfWeights(_, _, _)
SumOfWeights(m, ap, weights) ==
  IF m = 0 THEN Zero
  ELSE RAdd(SumOfWeights(m - 1, ap, weights),
            RMul(ap[m].aperTerm, weights[m - 1]))

\* the buffers and the log once every pair recs[m] has added into them
JunctionBuffers(recs, n, junk) ==
  [flux |-> [s \in Slots(n) |-> SumFlux(Len(recs), recs, s)],
   fluxJacobian |-> [r \in Slots(n) |->
                       [cc \in Slots(n) |->
                          SumJacobian(Len(recs), recs, r, cc, junk)]],
   dFlux_dAperture |-> [r \in Slots(n) |->
                          [cc \in Slots(n) |->
                             SumAperture(Len(recs), recs, r, cc)]],
   log |-> [m \in 1 .. Len(recs) |->
              [k |-> recs[m].k, k_up |-> recs[m].k_up,
               ei_up |-> recs[m].ei_up, potDif |-> recs[m].potDif,
               mobility |-> recs[m].mobility,
               dMobility_dP |-> recs[m].dMobility_dP,
               fluxVal |-> recs[m].fluxVal, tip |-> recs[m].tip,
               tipElmtIndex |-> recs[m].tipElmtIndex,
               channelElmtIndex |-> recs[m].channelElmtIndex,
               indexReads |-> recs[m].indexReads,
               indicesAssigned |-> recs[m].indicesAssigned,
               weight |-> recs[m].weight,
               dWeight_dAper |-> recs[m].dWeight_dAper,
               aperTerm |-> recs[m].aperTerm,
               dAperTerm_dAper |-> recs[m].dAperTerm_dAper,
               standard |-> recs[m].standard,
               fluxAdd |-> [s \in Slots(n) |-> FluxAdd(recs[m], s)],
               jacobianAdd |->
                 [r \in Slots(n) |->
                    [cc \in Slots(n) |-> JacobianAdd(recs[m], r, cc, junk)]],
               apertureAdd |->
                 [r \in Slots(n) |->
                    [cc \in Slots(n) |-> ApertureAdd(recs[m], r, cc)]]]]]

\* what the kernel sets up before the pair loops: the tip elements, the
\* aperture terms of the slots and their weighted sum
JunctionArgs(n, sei, weights, c, dtArg, tipLocArg, viscArg, junk, a0) ==
  With(ApertureTerms(n, sei, a0),
       LAMBDA ap :
         [n |-> n, sei |-> sei, weights |-> weights,
          aperTerm |-> [m \in 1 .. n |-> ap[m].aperTerm],
          dAperTerm_dAper |-> [m \in 1 .. n |-> ap[m].dAperTerm_dAper],
          sumOfWeights |-> SumOfWeights(n, ap, weights),
          c |-> c, dt |-> dtArg,
          gateOpen |-> TipGateOpen(tipLocArg, viscArg),
          tipElements |-> tipElements,
          junk |-> junk])

\* the local buffers are zero when the kernel is entered, and every pair
\* adds into them
ComputeJunction(n, sei, weights, c, dtArg, tipLocArg, viscArg, junk, a0) ==
  With(JunctionArgs(n, sei, weights, c, dtArg, tipLocArg, viscArg, junk,
                    a0),
       LAMBDA a :
         With(JunctionPairs(Len(Pairs(n)), Pairs(n), a),
              LAMBDA recs : JunctionBuffers(recs, n, junk)))

-----------------------------------------------------------------------------
(* Specifications *)

MapIdle ==
  /\ fluidPhaseNames = <<>>
  /\ relPermPhaseNames = <<>>
  /\ m_phaseToRow = <<>>
  /\ initialization = NoVal

CheckIdle ==
  /\ elemOwner = <<>>
  /\ elemGhosted = <<>>
  /\ m_pressure = <<>>
  /\ m_deltaPressure = <<>>
  /\ m_phaseSat = <<>>
  /\ m_deltaPhaseSat = <<>>
  /\ solution = <<>>
  /\ scalingFactor = Zero
  /\ localCheck = <<>>
  /\ globalCheck = <<>>

DamageIdle ==
  /\ m_stress = <<>>
  /\ baseStrainEnergyDensity = <<>>
  /\ m_strainEnergyDensity = <<>>
  /\ damageCall = <<>>

StepIdle ==
  /\ commRank = 0
  /\ m_newPhaseSat = <<>>
  /\ m_pvMult = <<>>
  /\ m_phaseDens = <<>>
  /\ phaseRelPerm = <<>>
  /\ m_phaseMob = <<>>
  /\ m_porosityOld = <<>>
  /\ m_phaseDensOld = <<>>
  /\ systemLog = <<>>
  /\ solverStep = "idle"
  /\ lastCall = NoVal
  /\ m_numNewtonIterations = 0
  /\ cycleNumber = 0
  /\ dt_return = <<>>
  /\ solverStepReturn = <<>>

\* enum class timeIntegrationOption
SteadyState == 0
ImplicitTransient == 1
ExplicitTransient == 2
InertialTransient == 3

OptionIdle ==
  /\ m_timeIntegrationOption = SteadyState
  /\ optionCalls = <<>>
  /\ optionError = NoVal

AperIdle ==
  /\ aper0 = Zero
  /\ aper = Zero
  /\ aperTerm = [o \in IntegrationOptions |-> NoVal]
  /\ dAperTerm_dAper = [o \in IntegrationOptions |-> NoVal]

AperPending ==
  /\ aper0 \in Apertures
  /\ aper \in Apertures
  /\ aperTerm = [o \in IntegrationOptions |-> NoVal]
  /\ dAperTerm_dAper = [o \in IntegrationOptions |-> NoVal]

CallAperture(opt) ==
  LET r == apertureForPermeablityCalculation(opt, aper0, aper)
  IN  /\ aperTerm' = [aperTerm EXCEPT ![opt] = r.aperTerm]
      /\ dAperTerm_dAper' = [dAperTerm_dAper EXCEPT ![opt] = r.dAperTerm_dAper]
      /\ UNCHANGED <<aper0, aper>>

CallAperture0 == CallAperture(0)
CallAperture1 == CallAperture(1)
CallAperture2 == CallAperture(2)

NextAper ==
  \/ CallAperture0
       /\ UNCHANGED <<fluxVars, mapVars, checkVars, damageVars, stepVars,
                 optionVars>>
  \/ CallAperture1
       /\ UNCHANGED <<fluxVars, mapVars, checkVars, damageVars, stepVars,
                 optionVars>>
  \/ CallAperture2
       /\ UNCHANGED <<fluxVars, mapVars, checkVars, damageVars, stepVars,
                 optionVars>>

\* the connections drawn: distinct elements, in either order when there
\* are two and in ascending order when there are more
Stencils(n) ==
  {s \in [Slots(n) -> Elems] :
     \A i, j \in Slots(n) :
        i < j => (s[i] # s[j] /\ (n > NUM_POINT_IN_FLUX => s[i] < s[j]))}

DtVals == {R(1), R(2)}
TipLocs == {R(1), R(2)}
Viscosities == {Rat(1, 1000), Rat(2, 1000)}
MeanPermCoeffs == {Zero, Half, One}

FluxIdle ==
  /\ stencilElementIndices = <<>>
  /\ stencilWeights = <<>>
  /\ dt = Zero
  /\ meanPermCoeff = Zero
  /\ tipLoc = Zero
  /\ viscosity = Zero
  /\ kernel = "none"
  /\ flux = <<>>
  /\ fluxJacobian = <<>>
  /\ dFlux_dAperture = <<>>
  /\ pairLog = <<>>

\* a cell-to-cell connection of the two-point stencil: weights (T0, -T1)
InitTPFA ==
  /\ stencilElementIndices \in Stencils(2)
  /\ stencilWeights = [k \in Slots(2) |->
                         IF k = 0
                         THEN transmissibility[stencilElementIndices[0]]
                         ELSE RNeg(transmissibility[stencilElementIndices[1]])]
  /\ dt \in DtVals
  /\ meanPermCoeff = Zero
  /\ tipLoc = Zero
  /\ viscosity = Zero
  /\ kernel = "CellElementStencilTPFA"
  /\ flux = ZeroVec(2)
  /\ fluxJacobian = ZeroMat(2)
  /\ dFlux_dAperture = ZeroMat(2)
  /\ pairLog = <<>>

\* a fracture connection of the face-element stencil: 2 .. MaxFluxElems
\* face elements, positive weights
MaxFluxElems == 3

InitJunction ==
  /\ \E n \in 2 .. MaxFluxElems : stencilElementIndices \in Stencils(n)
  /\ stencilWeights = [k \in DOMAIN stencilElementIndices |->
                         transmissibility[stencilElementIndices[k]]]
  /\ dt \in DtVals
  /\ meanPermCoeff \in MeanPermCoeffs
  /\ tipLoc \in TipLocs
  /\ viscosity \in Viscosities
  /\ kernel = "FaceElementStencil"
  /\ flux = [k \in DOMAIN stencilElementIndices |-> Zero]
  /\ fluxJacobian = [k \in DOMAIN stencilElementIndices |->
                       [l \in DOMAIN stencilElementIndices |-> Zero]]
  /\ dFlux_dAperture = fluxJacobian
  /\ pairLog = <<>>

numFluxElems == Cardinality(DOMAIN stencilElementIndices)

CallComputeJunction ==
  /\ kernel = "FaceElementStencil"
  /\ \E junk \in IF numFluxElems > 2 /\ TipGateOpen(tipLoc, viscosity)
                  THEN Junks(numFluxElems) ELSE {NoJunk} :
       \E r \in {ComputeJunction(numFluxElems, stencilElementIndices,
                                 stencilWeights, meanPermCoeff, dt, tipLoc,
                                 viscosity, junk, aperture0)} :
           /\ flux' = r.flux
           /\ fluxJacobian' = r.fluxJacobian
           /\ dFlux_dAperture' = r.dFlux_dAperture
           /\ pairLog' = r.log
  /\ kernel' = "junction"
  /\ UNCHANGED fluxArgs

CallComputeCrossRegion ==
  /\ kernel = "CellElementStencilTPFA"
  /\ \E r \in {ComputeCrossRegion(2, stencilElementIndices, stencilWeights,
                                  dt)} :
         /\ flux' = r.flux
         /\ fluxJacobian' = r.fluxJacobian
         /\ pairLog' = r.log
  /\ kernel' = "cross"
  /\ UNCHANGED <<fluxArgs, dFlux_dAperture>>

CallComputeSameRegion ==
  /\ kernel = "CellElementStencilTPFA"
  /\ \E r \in {ComputeSameRegion(2, stencilElementIndices, stencilWeights,
                                  dt)} :
         /\ flux' = r.flux
         /\ fluxJacobian' = r.fluxJacobian
         /\ pairLog' = r.log
  /\ kernel' = "same"
  /\ UNCHANGED <<fluxArgs, dFlux_dAperture>>

InitFlux ==
  AperIdle /\ MapIdle /\ CheckIdle /\ DamageIdle /\ StepIdle /\ OptionIdle
    /\ (InitTPFA \/ InitJunction)

NextFlux ==
  \/ CallComputeCrossRegion
       /\ UNCHANGED <<aperVars, mapVars, checkVars, damageVars, stepVars,
                 optionVars>>
  \/ CallComputeSameRegion
       /\ UNCHANGED <<aperVars, mapVars, checkVars, damageVars, stepVars,
                 optionVars>>
  \/ CallComputeJunction
       /\ UNCHANGED <<aperVars, mapVars, checkVars, damageVars, stepVars,
                 optionVars>>

SpecFlux == InitFlux /\ [][NextFlux]_vars

InitAper ==
  AperPending /\ FluxIdle /\ MapIdle /\ CheckIdle /\ DamageIdle /\ StepIdle
    /\ OptionIdle

SpecAper == InitAper /\ [][NextAper]_vars

-----------------------------------------------------------------------------
(* TwoPhaseBase::InitializePreSubGroups: the phase-to-row map *)

NUM_PHASES == 2

\* RowOffset::WETTING, RowOffset::NONWETTING
WETTING == 0
NONWETTING == 1

PhaseNames == {"water", "oil", "gas"}

\* phaseName( ip ) of a list of names
phaseName(names, ip) == names[ip + 1]

\* the wetting phase taken for the non-wetting one
WettingPhaseSwapped(fluid) ==
  IF \/ (phaseName(fluid, 0) = "oil" /\ phaseName(fluid, 1) = "gas")
     \/ (phaseName(fluid, 1) = "oil" /\ phaseName(fluid, 0) = "water")
  THEN [wettingPhaseSat |-> 1, nonWettingPhaseSat |-> 0]
  ELSE IF \/ (phaseName(fluid, 1) = "oil" /\ phaseName(fluid, 0) = "gas")
          \/ (phaseName(fluid, 0) = "oil" /\ phaseName(fluid, 1) = "water")
  THEN [wettingPhaseSat |-> 0, nonWettingPhaseSat |-> 1]
  ELSE [wettingPhaseSat |-> -1, nonWettingPhaseSat |-> -1]

\* every pair of names accepted, phase 0 wetting
WettingPhaseLenient(fluid) ==
  IF \/ (phaseName(fluid, 1) = "oil" /\ phaseName(fluid, 0) = "gas")
     \/ (phaseName(fluid, 0) = "oil" /\ phaseName(fluid, 1) = "water")
  THEN [wettingPhaseSat |-> 1, nonWettingPhaseSat |-> 0]
  ELSE [wettingPhaseSat |-> 0, nonWettingPhaseSat |-> 1]

\* gas taken for the wetting phase against oil
WettingPhaseGasWets(fluid) ==
  IF \/ (phaseName(fluid, 1) = "oil" /\ phaseName(fluid, 0) = "gas")
     \/ (phaseName(fluid, 1) = "oil" /\ phaseName(fluid, 0) = "water")
  THEN [wettingPhaseSat |-> 0, nonWettingPhaseSat |-> 1]
  ELSE IF \/ (phaseName(fluid, 0) = "oil" /\ phaseName(fluid, 1) = "gas")
          \/ (phaseName(fluid, 0) = "oil" /\ phaseName(fluid, 1) = "water")
  THEN [wettingPhaseSat |-> 1, nonWettingPhaseSat |-> 0]
  ELSE [wettingPhaseSat |-> -1, nonWettingPhaseSat |-> -1]

\* determine the indices of the wetting and non-wetting phases
WettingPhase(fluid) ==
  IF \/ (phaseName(fluid, 0) = "oil" /\ phaseName(fluid, 1) = "gas")
     \/ (phaseName(fluid, 1) = "oil" /\ phaseName(fluid, 0) = "water")
  THEN [wettingPhaseSat |-> 0, nonWettingPhaseSat |-> 1]
  ELSE IF \/ (phaseName(fluid, 1) = "oil" /\ phaseName(fluid, 0) = "gas")
          \/ (phaseName(fluid, 0) = "oil" /\ phaseName(fluid, 1) = "water")
  THEN [wettingPhaseSat |-> 1, nonWettingPhaseSat |-> 0]
  ELSE [wettingPhaseSat |-> -1, nonWettingPhaseSat |-> -1]

\* the GEOSX_ERROR_IF checks in their order, then the map; an error ends
\* the program with m_phaseToRow as it was
InitializePreSubGroups(fluid, relPerm, phaseToRow) ==
  IF relPerm = <<>>
  THEN [error |-> "relperm model not found", m_phaseToRow |-> phaseToRow]
  ELSE IF Len(fluid) # 2
  THEN [error |-> "invalid number of fluid phases",
        m_phaseToRow |-> phaseToRow]
  ELSE IF Len(fluid) # Len(relPerm) \/ Len(fluid) # NUM_PHASES
  THEN [error |-> "number of fluid phases differs",
        m_phaseToRow |-> phaseToRow]
  ELSE IF \E ip \in 0 .. (NUM_PHASES - 1) :
             phaseName(fluid, ip) # phaseName(relPerm, ip)
  THEN [error |-> "phase does not match", m_phaseToRow |-> phaseToRow]
  ELSE With(WettingPhase(fluid),
            LAMBDA w :
              IF w.wettingPhaseSat = -1 \/ w.nonWettingPhaseSat = -1
              THEN [error |-> "accepted phase names are water, oil, and gas",
                    m_phaseToRow |-> phaseToRow]
              ELSE [error |-> NoVal,
                    m_phaseToRow |->
                      [ip \in 0 .. (NUM_PHASES - 1) |->
                         IF ip = w.nonWettingPhaseSat THEN NONWETTING
                         ELSE WETTING]])

\* the phase lists drawn: 1 .. MaxPhases names each
MaxPhases == 3
PhaseLists == UNION {[1 .. n -> PhaseNames] : n \in 1 .. MaxPhases}

InitMap ==
  /\ fluidPhaseNames \in PhaseLists
  /\ relPermPhaseNames \in PhaseLists \cup {<<>>}
  /\ m_phaseToRow = <<>>
  /\ initialization = "pending"
  /\ AperIdle /\ FluxIdle /\ CheckIdle /\ DamageIdle /\ StepIdle /\ OptionIdle

CallInitializePreSubGroups ==
  /\ initialization = "pending"
  /\ \E r \in {InitializePreSubGroups(fluidPhaseNames, relPermPhaseNames,
                                        m_phaseToRow)} :
        /\ initialization' = (IF r.error = NoVal THEN "done" ELSE r.error)
        /\ m_phaseToRow' = r.m_phaseToRow
  /\ UNCHANGED <<fluidPhaseNames, relPermPhaseNames>>

NextMap ==
  CallInitializePreSubGroups
    /\ UNCHANGED <<aperVars, fluxVars, checkVars, damageVars, stepVars,
                 optionVars>>

SpecMap == InitMap /\ [][NextMap]_vars

-----------------------------------------------------------------------------
(* TwoPhaseBase::CheckSystemSolution *)

\* ColOffset::DPRES, ColOffset::DSAT
DPRES == 0
DSAT == 1

NumRanks == 2
NumCells == 2
Ranks == 0 .. (NumRanks - 1)
Cells == 0 .. (NumCells - 1)

\* the elements of rank r's subregion: the cells it owns and its ghosts
LocalElems(r) == {ei \in Cells : elemOwner[ei] = r \/ r \in elemGhosted[ei]}

\* elemGhostRank[ei] on rank r: negative for an owned cell, else the owner
elemGhostRank(r, ei) == IF elemOwner[ei] = r THEN -1 ELSE elemOwner[ei]

\* the bounds of one element without the upper bound of the saturation
ElementOutOfBoundsNoUpper(ei, sf) ==
  \/ RLt(RAdd(RAdd(m_pressure[ei], m_deltaPressure[ei]),
               RMul(sf, solution[ei][DPRES])), Zero)
  \/ RLt(RAdd(RAdd(m_phaseSat[ei][0], m_deltaPhaseSat[ei][0]),
               RMul(sf, solution[ei][DSAT])), Zero)

\* newPres < 0.0, or newPhaseSat < 0.0 || newPhaseSat > 1.0
ElementOutOfBounds(ei, sf) ==
  \/ RLt(RAdd(RAdd(m_pressure[ei], m_deltaPressure[ei]),
               RMul(sf, solution[ei][DPRES])), Zero)
  \/ With(RAdd(RAdd(m_phaseSat[ei][0], m_deltaPhaseSat[ei][0]),
                RMul(sf, solution[ei][DSAT])),
           LAMBDA newPhaseSat :
             RLt(newPhaseSat, Zero) \/ RGt(newPhaseSat, One))

\* localCheck of rank r: 1, set to 0 by an owned element out of bounds
LocalCheck(r, sf) ==
  IF \E ei \in LocalElems(r) :
        ~(elemGhostRank(r, ei) >= 0) /\ ElementOutOfBounds(ei, sf)
  THEN 0 ELSE 1

\* MpiWrapper::Min( localCheck )
MpiMin(lc) == CHOOSE m \in Range(lc) : \A x \in Range(lc) : m <= x

\* a check that remembers it ran: it rejects whatever it is asked again
CheckSystemSolutionOnce(sf) ==
  With([r \in Ranks |-> IF lastCall = "CheckSystemSolution" THEN 0
                        ELSE LocalCheck(r, sf)],
       LAMBDA lc : [localCheck |-> lc,
                    globalCheck |-> [r \in Ranks |-> MpiMin(lc)]])

CheckSystemSolution(sf) ==
  With([r \in Ranks |-> LocalCheck(r, sf)],
       LAMBDA lc : [localCheck |-> lc,
                    globalCheck |-> [r \in Ranks |-> MpiMin(lc)]])

\* the fields drawn
Pressures == {R(1)}
DeltaPressures == {Zero, R(1)}
PressureUpdates == {R(-3), R(-2), Zero}
Saturations == {Zero, Half}
DeltaSaturations == {Zero, Half}
SaturationUpdates == {R(-1), R(1)}
ScalingFactors == {One, Half}

InitCheck ==
  /\ elemOwner \in [Cells -> Ranks]
  /\ elemGhosted \in [Cells -> SUBSET Ranks]
  /\ \A ei \in Cells : elemOwner[ei] \notin elemGhosted[ei]
  /\ m_pressure \in [Cells -> Pressures]
  /\ m_deltaPressure \in [Cells -> DeltaPressures]
  /\ \E s \in [Cells -> Saturations] :
        m_phaseSat = [ei \in Cells |->
                        [ip \in 0 .. (NUM_PHASES - 1) |->
                           IF ip = 0 THEN s[ei] ELSE RSub(One, s[ei])]]
  /\ \E d \in [Cells -> DeltaSaturations] :
        m_deltaPhaseSat = [ei \in Cells |->
                             [ip \in 0 .. (NUM_PHASES - 1) |->
                                IF ip = 0 THEN d[ei] ELSE RNeg(d[ei])]]
  /\ solution \in [Cells -> {[col \in {DPRES, DSAT} |->
                                 IF col = DPRES THEN u[1] ELSE u[2]] :
                               u \in PressureUpdates \X SaturationUpdates}]
  /\ scalingFactor = Zero
  /\ localCheck = <<>>
  /\ globalCheck = <<>>
  /\ AperIdle /\ FluxIdle /\ MapIdle /\ DamageIdle /\ StepIdle /\ OptionIdle

CallCheckSystemSolution ==
  \E sf \in ScalingFactors :
     \E r \in {CheckSystemSolution(sf)} :
        /\ scalingFactor' = sf
        /\ localCheck' = r.localCheck
        /\ globalCheck' = r.globalCheck
        /\ UNCHANGED checkArgs

NextCheck ==
  CallCheckSystemSolution
    /\ UNCHANGED <<aperVars, fluxVars, mapVars, damageVars, stepVars,
                 optionVars>>

SpecCheck == InitCheck /\ [][NextCheck]_vars

-----------------------------------------------------------------------------
(* DamageVolDevUpdates::calculateActiveStrainEnergyDensity *)

NumDamageElems == 2
NumQuadPoints == 1

\* the points (k, q)
Points == (0 .. (NumDamageElems - 1)) \X (0 .. (NumQuadPoints - 1))

\* UPDATE_BASE::getBulkModulus( k ): positive
getBulkModulus(k) == R(k + 1)

\* the stress states drawn: the components 0, 1, 2 of the stress with the
\* strain energy density UPDATE_BASE::calculateStrainEnergyDensity gives
StressStates ==
  {[stress |-> <<Zero, Zero, Zero>>, sed |-> Zero],
   [stress |-> <<R(1), R(1), R(1)>>, sed |-> R(1)],
   [stress |-> <<R(1), R(-1), R(1)>>, sed |-> R(2)],
   [stress |-> <<R(-1), R(-1), R(-1)>>, sed |-> R(1)],
   [stress |-> <<R(-3), R(-3), Zero>>, sed |-> R(2)]}

\* the candidate: the strain energy density without the volumetric part
\* under compression
ActiveStrainEnergyDensity(k, q) ==
  With(RAdd(RAdd(m_stress[<<k, q>>][1], m_stress[<<k, q>>][2]),
            m_stress[<<k, q>>][3]),
       LAMBDA traceOfStress :
         With(IF RLt(traceOfStress, Zero) THEN One ELSE Zero,
              LAMBDA compressionIndicator :
                RSub(baseStrainEnergyDensity[<<k, q>>],
                     RDiv(RMul(RMul(compressionIndicator,
                                    RDiv(traceOfStress, R(3))),
                               RDiv(traceOfStress, R(3))),
                          RMul(R(2), getBulkModulus(k))))))

\* the history field overwritten by every candidate
HistoryOverwritten(history, sed) == sed

\* if( sed > m_strainEnergyDensity( k, q ) ) m_strainEnergyDensity( k, q ) = sed;
HistoryUpdate(history, sed) == IF RGt(sed, history) THEN sed ELSE history

calculateActiveStrainEnergyDensity(k, q) ==
  With(ActiveStrainEnergyDensity(k, q),
       LAMBDA sed :
         With(HistoryUpdate(m_strainEnergyDensity[<<k, q>>], sed),
              LAMBDA history :
                [m_strainEnergyDensity |->
                   [m_strainEnergyDensity EXCEPT ![<<k, q>>] = history],
                 sed |-> sed,
                 result |-> history]))

InitDamage ==
  /\ m_stress = [p \in Points |-> <<Zero, Zero, Zero>>]
  /\ baseStrainEnergyDensity = [p \in Points |-> Zero]
  /\ m_strainEnergyDensity = [p \in Points |-> Zero]
  /\ damageCall = <<>>
  /\ AperIdle /\ FluxIdle /\ MapIdle /\ CheckIdle /\ StepIdle /\ OptionIdle

\* the solid update leaves a new stress state at a point
UpdateStress ==
  /\ \E p \in Points, st \in StressStates :
        /\ m_stress' = [m_stress EXCEPT ![p] = st.stress]
        /\ baseStrainEnergyDensity' =
             [baseStrainEnergyDensity EXCEPT ![p] = st.sed]
  /\ UNCHANGED <<m_strainEnergyDensity, damageCall>>

CallCalculateActiveStrainEnergyDensity ==
  /\ \E p \in Points :
        \E r \in {calculateActiveStrainEnergyDensity(p[1], p[2])} :
           /\ m_strainEnergyDensity' = r.m_strainEnergyDensity
           /\ damageCall' = <<[k |-> p[1], q |-> p[2], sed |-> r.sed,
                               result |-> r.result]>>
  /\ UNCHANGED <<m_stress, baseStrainEnergyDensity>>

NextDamage ==
  \/ UpdateStress
       /\ UNCHANGED <<aperVars, fluxVars, mapVars, checkVars, stepVars,
                 optionVars>>
  \/ CallCalculateActiveStrainEnergyDensity
       /\ UNCHANGED <<aperVars, fluxVars, mapVars, checkVars, stepVars,
                 optionVars>>

SpecDamage == InitDamage /\ [][NextDamage]_vars

-----------------------------------------------------------------------------
(* TwoPhaseBase: the state update and the time step *)

Phases == 0 .. (NUM_PHASES - 1)

\* the elements of the subregion of the process: subRegion.size()
SubRegion == LocalElems(commRank)

\* m_elemGhostRank[er][esr][ei] of the process
m_elemGhostRank(ei) == elemGhostRank(commRank, ei)

\* forAll< serialPolicy >( subRegion.size(), ... ) writing one field
ForAll(field, Value(_)) ==
  [a \in Cells |-> IF a \in SubRegion THEN Value(a) ELSE field[a]]

\* the fields of the subregion the solver reads and writes, with the
\* history of the solid
Fields ==
  [pressure |-> m_pressure,
   deltaPressure |-> m_deltaPressure,
   phaseSat |-> m_phaseSat,
   deltaPhaseSat |-> m_deltaPhaseSat,
   newPhaseSat |-> m_newPhaseSat,
   pvMult |-> m_pvMult,
   phaseDens |-> m_phaseDens,
   phaseRelPerm |-> phaseRelPerm,
   phaseMob |-> m_phaseMob,
   porosityOld |-> m_porosityOld,
   phaseDensOld |-> m_phaseDensOld,
   strainEnergyDensity |-> m_strainEnergyDensity,
   damageCall |-> damageCall]

\* the constitutive models, pure functions of their argument:
\* fluid->PointUpdate gives the phase densities at a pressure,
PointUpdate(p) == [ip \in Phases |-> RAdd(R(ip + 1), RMul(Half, p))]

\* solid->StateUpdatePointPressure the pore volume multiplier,
StateUpdatePointPressure(p) == RAdd(One, RMul(Quarter, p))

\* relPerm->BatchUpdate the relative permeabilities at a saturation,
BatchUpdate(sat) == [ip \in Phases |-> RMul(sat[ip], sat[ip])]

\* PhaseMobilityKernel the mobilities (unit viscosity)
PhaseMobilityKernel(phaseDens, relPerm) ==
  [ip \in Phases |-> RMul(relPerm[ip], phaseDens[ip])]

\* reference porosity of a cell
m_porosityRef(ei) == Rat(ei + 1, 4)

UpdateFluidModel(s) ==
  [s EXCEPT !.phaseDens =
     ForAll(s.phaseDens,
            LAMBDA a : PointUpdate(RAdd(s.pressure[a], s.deltaPressure[a])))]

UpdateSolidModel(s) ==
  [s EXCEPT !.pvMult =
     ForAll(s.pvMult,
            LAMBDA a : StateUpdatePointPressure(
                         RAdd(s.pressure[a], s.deltaPressure[a])))]

\* the new saturation accumulated on the stored one
UpdateRelPermModelAccumulating(s) ==
  With(ForAll(s.newPhaseSat,
              LAMBDA a : [ip \in Phases |->
                            RAdd(s.newPhaseSat[a][ip],
                                 s.deltaPhaseSat[a][ip])]),
       LAMBDA sat :
         [s EXCEPT !.newPhaseSat = sat,
                   !.phaseRelPerm =
                      ForAll(s.phaseRelPerm, LAMBDA a : BatchUpdate(sat[a]))])

UpdateRelPermModel(s) ==
  With(ForAll(s.newPhaseSat,
              LAMBDA a : [ip \in Phases |->
                            RAdd(s.phaseSat[a][ip], s.deltaPhaseSat[a][ip])]),
       LAMBDA sat :
         [s EXCEPT !.newPhaseSat = sat,
                   !.phaseRelPerm =
                      ForAll(s.phaseRelPerm, LAMBDA a : BatchUpdate(sat[a]))])

UpdatePhaseMobility(s) ==
  [s EXCEPT !.phaseMob =
     ForAll(s.phaseMob,
            LAMBDA a : PhaseMobilityKernel(s.phaseDens[a],
                                           s.phaseRelPerm[a]))]

UpdateState(s) ==
  With(UpdateFluidModel(s),
       LAMBDA s1 :
         With(UpdateSolidModel(s1),
              LAMBDA s2 :
                With(UpdateRelPermModel(s2),
                     LAMBDA s3 : UpdatePhaseMobility(s3))))

\* set deltas to zero and recompute dependent quantities
ResetStateToBeginningOfStep(s) ==
  UpdateState(
    [s EXCEPT !.deltaPressure = ForAll(s.deltaPressure, LAMBDA ei : Zero),
              !.deltaPhaseSat =
                 ForAll(s.deltaPhaseSat,
                        LAMBDA ei : [ip \in Phases |-> Zero])])

\* the ghost cells backed up too
BackupFieldsWithGhosts(s) ==
  [s EXCEPT !.porosityOld =
               ForAll(s.porosityOld,
                      LAMBDA ei : RMul(m_porosityRef(ei), s.pvMult[ei])),
            !.phaseDensOld =
               ForAll(s.phaseDensOld, LAMBDA ei : s.phaseDens[ei])]

\* backup fields used in time derivative approximation
BackupFields(s) ==
  [s EXCEPT !.porosityOld =
               ForAll(s.porosityOld,
                      LAMBDA ei :
                        IF m_elemGhostRank(ei) < 0
                        THEN RMul(m_porosityRef(ei), s.pvMult[ei])
                        ELSE s.porosityOld[ei]),
            !.phaseDensOld =
               ForAll(s.phaseDensOld,
                      LAMBDA ei :
                        IF m_elemGhostRank(ei) < 0
                        THEN [ip \in Phases |-> s.phaseDens[ei][ip]]
                        ELSE s.phaseDensOld[ei])]

\* the backup taken before the reset
ImplicitStepSetupBackupFirst(s) ==
  With(BackupFields(s), LAMBDA s1 : ResetStateToBeginningOfStep(s1))

\* ResetViews binds the views; SetupSystem lays out matrix, rhs and
\* solution, whose values are not kept here
ImplicitStepSetup(s) ==
  With(ResetStateToBeginningOfStep(s), LAMBDA s1 : BackupFields(s1))

\* the saturation of phase 1 left out of the fold
FoldDeltasFirstPhase(s) ==
  [s EXCEPT !.pressure =
               ForAll(s.pressure,
                      LAMBDA ei : RAdd(s.pressure[ei], s.deltaPressure[ei])),
            !.phaseSat =
               ForAll(s.phaseSat,
                      LAMBDA ei :
                        [s.phaseSat[ei] EXCEPT
                           ![0] = RAdd(@, s.deltaPhaseSat[ei][0])])]

\* pres[ei] += dPres[ei]; phaseSat[ei][ip] += dPhaseSat[ei][ip]
FoldDeltas(s) ==
  [s EXCEPT !.pressure =
               ForAll(s.pressure,
                      LAMBDA ei : RAdd(s.pressure[ei], s.deltaPressure[ei])),
            !.phaseSat =
               ForAll(s.phaseSat,
                      LAMBDA ei :
                        [s.phaseSat[ei] EXCEPT
                           ![0] = RAdd(@, s.deltaPhaseSat[ei][0]),
                           ![1] = RAdd(@, s.deltaPhaseSat[ei][1])])]

\* the fold followed by the update of the history of the solid
ImplicitStepCompleteUpdatingHistory(s) ==
  With(calculateActiveStrainEnergyDensity(0, 0),
       LAMBDA r :
         [FoldDeltas(s) EXCEPT
            !.strainEnergyDensity = r.m_strainEnergyDensity,
            !.damageCall = <<[k |-> 0, q |-> 0, sed |-> r.sed,
                              result |-> r.result]>>])

ImplicitStepComplete(s) == FoldDeltas(s)

\* ColOffset and RowOffset count NUM_DOF unknowns and equations per cell
NUM_DOF == 2

\* the global index of the first unknown of a cell, from the DofManager
dofNumber(ei) == NUM_DOF * ei

\* one operation on the matrix or the right-hand side
Event(op, by) ==
  [op |-> op, by |-> by, ei |-> -1, rows |-> <<>>, cols |-> <<>>]

\* rhs->add( eqnRowIndices, localAccum ) and
\* matrix->add( eqnRowIndices, dofColIndices, localAccumJacobian ) of a cell
Contribution(by, ei, phaseToRow) ==
  With([ip \in Phases |-> dofNumber(ei) + phaseToRow[ip]],
       LAMBDA eqnRowIndices :
         With([c \in {DPRES, DSAT} |-> dofNumber(ei) + c],
              LAMBDA dofColIndices :
                <<[op |-> "rhs.add", by |-> by, ei |-> ei,
                   rows |-> eqnRowIndices, cols |-> <<>>],
                  [op |-> "matrix.add", by |-> by, ei |-> ei,
                   rows |-> eqnRowIndices, cols |-> dofColIndices]>>))

\* the ghost cells assembled too
RECURSIVE AccumulationFromWithGhosts(_, _)
AccumulationFromWithGhosts(ei, phaseToRow) ==
  IF ei >= NumCells THEN <<>>
  ELSE (IF ei \in SubRegion
        THEN Contribution("AssembleAccumulationTerms", ei, phaseToRow)
        ELSE <<>>) \o AccumulationFromWithGhosts(ei + 1, phaseToRow)

\* the loop over the elements from ei on
RECURSIVE AccumulationFrom(_, _)
AccumulationFrom(ei, phaseToRow) ==
  IF ei >= NumCells THEN <<>>
  ELSE (IF ei \in SubRegion /\ m_elemGhostRank(ei) < 0
        THEN Contribution("AssembleAccumulationTerms", ei, phaseToRow)
        ELSE <<>>) \o AccumulationFrom(ei + 1, phaseToRow)

AssembleAccumulationTerms(phaseToRow) == AccumulationFrom(0, phaseToRow)

\* one contribution per connection of two neighbouring elements of the
\* subregion, to the rows of its first owned element
RECURSIVE FluxFrom(_, _)
FluxFrom(ei, phaseToRow) ==
  IF ei + 1 >= NumCells THEN <<>>
  ELSE (IF /\ ei \in SubRegion
           /\ (ei + 1) \in SubRegion
           /\ (m_elemGhostRank(ei) < 0 \/ m_elemGhostRank(ei + 1) < 0)
        THEN Contribution("AssembleFluxTerms",
                          IF m_elemGhostRank(ei) < 0 THEN ei ELSE ei + 1,
                          phaseToRow)
        ELSE <<>>) \o FluxFrom(ei + 1, phaseToRow)

AssembleFluxTerms(phaseToRow) == FluxFrom(0, phaseToRow)

\* the system closed before the flux terms
AssembleSystemClosedEarly(logLevel, phaseToRow) ==
  <<Event("matrix.open", "AssembleSystem"),
    Event("rhs.open", "AssembleSystem")>>
    \o AssembleAccumulationTerms(phaseToRow)
    \o <<Event("matrix.close", "AssembleSystem"),
         Event("rhs.close", "AssembleSystem")>>
    \o AssembleFluxTerms(phaseToRow)

AssembleSystem(logLevel, phaseToRow) ==
  <<Event("matrix.open", "AssembleSystem"),
    Event("rhs.open", "AssembleSystem")>>
    \o AssembleAccumulationTerms(phaseToRow)
    \o AssembleFluxTerms(phaseToRow)
    \o <<Event("matrix.close", "AssembleSystem"),
         Event("rhs.close", "AssembleSystem")>>
    \o (IF logLevel = 2
        THEN <<Event("print matrix", "AssembleSystem"),
               Event("print rhs", "AssembleSystem")>>
        ELSE <<>>)
    \o (IF logLevel >= 3
        THEN <<Event("matrix.write", "AssembleSystem"),
               Event("rhs.write", "AssembleSystem")>>
        ELSE <<>>)

\* the scaled solution added to the deltas of every element of the
\* subregion, the saturations of the two phases moving against each other,
\* then the state updated
ApplySystemSolution(s, sf, sol) ==
  UpdateState(
    [s EXCEPT !.deltaPressure =
                 ForAll(s.deltaPressure,
                        LAMBDA ei : RAdd(s.deltaPressure[ei],
                                         RMul(sf, sol[ei][DPRES]))),
              !.deltaPhaseSat =
                 ForAll(s.deltaPhaseSat,
                        LAMBDA ei :
                          [ip \in Phases |->
                             IF ip = 0
                             THEN RAdd(s.deltaPhaseSat[ei][ip],
                                       RMul(sf, sol[ei][DSAT]))
                             ELSE RSub(s.deltaPhaseSat[ei][ip],
                                       RMul(sf, sol[ei][DSAT]))])])

\* the bounds of the run
MaxCycles == 2
MaxNewtonIter == 1
MaxLogLevel == 3

\* the dt SolverStep is called with and what NonlinearImplicitStep can
\* return: the whole dt, or the part of it that was solved after a cut
StepDt == R(2)
NonlinearImplicitStepReturns == {StepDt, RMul(Half, StepDt)}

\* SolverStep returning its argument dt
SolverStepReturnRequested(dtArg, dtReturn) == dtArg

\* return dt_return;
SolverStepReturn(dtArg, dtReturn) == dtReturn

\* the fluids and the linear solutions drawn
StepFluids == {<<"water", "oil">>, <<"oil", "water">>}

StepUpdates == {<<R(1), Quarter>>, <<R(-3), R(-1)>>}

StepSolutions ==
  {[ei \in Cells |-> [col \in {DPRES, DSAT} |->
                        IF col = DPRES THEN u[1] ELSE u[2]]] :
     u \in StepUpdates}

fieldVars == <<m_pressure, m_deltaPressure, m_phaseSat, m_deltaPhaseSat,
               m_newPhaseSat, m_pvMult, m_phaseDens, phaseRelPerm,
               m_phaseMob, m_porosityOld, m_phaseDensOld,
               m_strainEnergyDensity, damageCall>>

\* the fields after a solver function
SetFields(s) ==
  /\ m_pressure' = s.pressure
  /\ m_deltaPressure' = s.deltaPressure
  /\ m_phaseSat' = s.phaseSat
  /\ m_deltaPhaseSat' = s.deltaPhaseSat
  /\ m_newPhaseSat' = s.newPhaseSat
  /\ m_pvMult' = s.pvMult
  /\ m_phaseDens' = s.phaseDens
  /\ phaseRelPerm' = s.phaseRelPerm
  /\ m_phaseMob' = s.phaseMob
  /\ m_porosityOld' = s.porosityOld
  /\ m_phaseDensOld' = s.phaseDensOld
  /\ m_strainEnergyDensity' = s.strainEnergyDensity
  /\ damageCall' = s.damageCall

\* the mesh, the partition and the solid are not the solver's to change
StepFrame ==
  UNCHANGED <<commRank, elemOwner, elemGhosted, m_stress,
              baseStrainEnergyDensity>>

\* SolverStep's local and its result are written when SolverStep begins and
\* when it returns
StepReturnFrame == UNCHANGED <<dt_return, solverStepReturn>>

\* the state InitializePostInitialConditions_PreSubGroups leaves: the
\* deltas zero, the state updated, nothing backed up; every rank holds
\* every cell, as its own or as a ghost
InitStep ==
  /\ commRank \in Ranks
  /\ elemOwner \in [Cells -> Ranks]
  /\ elemGhosted = [ei \in Cells |-> Ranks \ {elemOwner[ei]}]
  /\ solution = [ei \in Cells |-> [col \in {DPRES, DSAT} |-> Zero]]
  /\ scalingFactor = Zero
  /\ localCheck = <<>>
  /\ globalCheck = <<>>
  /\ m_stress = [p \in Points |-> <<R(1), R(1), R(1)>>]
  /\ baseStrainEnergyDensity = [p \in Points |-> R(1)]
  /\ \E s \in {UpdateState(
                 [pressure |-> [ei \in Cells |-> R(1)],
                  deltaPressure |-> [ei \in Cells |-> Zero],
                  phaseSat |-> [ei \in Cells |-> [ip \in Phases |-> Half]],
                  deltaPhaseSat |->
                    [ei \in Cells |-> [ip \in Phases |-> Zero]],
                  newPhaseSat |->
                    [ei \in Cells |-> [ip \in Phases |-> Zero]],
                  pvMult |-> [ei \in Cells |-> Zero],
                  phaseDens |-> [ei \in Cells |-> [ip \in Phases |-> Zero]],
                  phaseRelPerm |->
                    [ei \in Cells |-> [ip \in Phases |-> Zero]],
                  phaseMob |-> [ei \in Cells |-> [ip \in Phases |-> Zero]],
                  porosityOld |-> [ei \in Cells |-> Zero],
                  phaseDensOld |->
                    [ei \in Cells |-> [ip \in Phases |-> Zero]],
                  strainEnergyDensity |-> [p \in Points |-> Zero],
                  damageCall |-> <<>>])} :
        /\ m_pressure = s.pressure
        /\ m_deltaPressure = s.deltaPressure
        /\ m_phaseSat = s.phaseSat
        /\ m_deltaPhaseSat = s.deltaPhaseSat
        /\ m_newPhaseSat = s.newPhaseSat
        /\ m_pvMult = s.pvMult
        /\ m_phaseDens = s.phaseDens
        /\ phaseRelPerm = s.phaseRelPerm
        /\ m_phaseMob = s.phaseMob
        /\ m_porosityOld = s.porosityOld
        /\ m_phaseDensOld = s.phaseDensOld
        /\ m_strainEnergyDensity = s.strainEnergyDensity
        /\ damageCall = s.damageCall
  /\ \E fluid \in StepFluids :
        /\ fluidPhaseNames = fluid
        /\ relPermPhaseNames = fluid
        /\ m_phaseToRow = InitializePreSubGroups(fluid, fluid, <<>>).m_phaseToRow
        /\ initialization = "done"
  /\ systemLog = <<>>
  /\ solverStep = "idle"
  /\ lastCall = NoVal
  /\ m_numNewtonIterations = 0
  /\ cycleNumber = 0
  /\ dt_return = <<>>
  /\ solverStepReturn = <<>>
  /\ AperIdle /\ FluxIdle /\ OptionIdle

\* SolverStep begins: ImplicitStepSetup, then NonlinearImplicitStep
CallImplicitStepSetup ==
  /\ solverStep = "idle"
  /\ cycleNumber < MaxCycles
  /\ SetFields(ImplicitStepSetup(Fields))
  /\ solverStep' = "NonlinearImplicitStep"
  /\ lastCall' = "ImplicitStepSetup"
  /\ m_numNewtonIterations' = 0
  /\ cycleNumber' = cycleNumber + 1
  /\ UNCHANGED <<solution, scalingFactor, localCheck, globalCheck,
                 systemLog>>
  /\ dt_return' = <<>>
  /\ UNCHANGED solverStepReturn
  /\ StepFrame

CallAssembleSystem ==
  /\ solverStep = "NonlinearImplicitStep"
  /\ \E logLevel \in 0 .. MaxLogLevel :
        systemLog' = AssembleSystem(logLevel, m_phaseToRow)
  /\ lastCall' = "AssembleSystem"
  /\ UNCHANGED <<fieldVars, solution, scalingFactor, localCheck,
                 globalCheck, solverStep, m_numNewtonIterations,
                 cycleNumber>>
  /\ StepFrame
  /\ StepReturnFrame

\* solution.zero(), then the solution the linear solver finds for the
\* assembled system
CallSolveSystem ==
  /\ solverStep = "NonlinearImplicitStep"
  /\ lastCall = "AssembleSystem"
  /\ solution' \in StepSolutions
  /\ lastCall' = "SolveSystem"
  /\ UNCHANGED <<fieldVars, scalingFactor, localCheck, globalCheck,
                 systemLog, solverStep, m_numNewtonIterations, cycleNumber>>
  /\ StepFrame
  /\ StepReturnFrame

StepCheckSystemSolution ==
  /\ solverStep = "NonlinearImplicitStep"
  /\ lastCall \in {"SolveSystem", "CheckSystemSolution"}
  /\ CallCheckSystemSolution
  /\ lastCall' = "CheckSystemSolution"
  /\ UNCHANGED <<commRank, m_newPhaseSat, m_pvMult, m_phaseDens,
                 phaseRelPerm, m_phaseMob, m_porosityOld, m_phaseDensOld,
                 systemLog, solverStep, m_numNewtonIterations, cycleNumber,
                 damageVars, dt_return, solverStepReturn>>

\* the solution is applied once the check has accepted it
CallApplySystemSolution ==
  /\ solverStep = "NonlinearImplicitStep"
  /\ lastCall = "CheckSystemSolution"
  /\ globalCheck[commRank] = 1
  /\ m_numNewtonIterations < MaxNewtonIter
  /\ SetFields(ApplySystemSolution(Fields, scalingFactor, solution))
  /\ lastCall' = "ApplySystemSolution"
  /\ m_numNewtonIterations' = m_numNewtonIterations + 1
  /\ UNCHANGED <<solution, scalingFactor, localCheck, globalCheck,
                 systemLog, solverStep, cycleNumber>>
  /\ StepFrame
  /\ StepReturnFrame

CallUpdateState ==
  /\ SetFields(UpdateState(Fields))
  /\ lastCall' = "UpdateState"
  /\ UNCHANGED <<solution, scalingFactor, localCheck, globalCheck,
                 systemLog, solverStep, m_numNewtonIterations, cycleNumber>>
  /\ StepFrame
  /\ StepReturnFrame

CallResetStateToBeginningOfStep ==
  /\ solverStep = "NonlinearImplicitStep"
  /\ SetFields(ResetStateToBeginningOfStep(Fields))
  /\ lastCall' = "ResetStateToBeginningOfStep"
  /\ UNCHANGED <<solution, scalingFactor, localCheck, globalCheck,
                 systemLog, solverStep, m_numNewtonIterations, cycleNumber>>
  /\ StepFrame
  /\ StepReturnFrame

\* NonlinearImplicitStep returns: ImplicitStepComplete ends SolverStep
CallImplicitStepComplete ==
  /\ solverStep = "NonlinearImplicitStep"
  /\ SetFields(ImplicitStepComplete(Fields))
  /\ solverStep' = "idle"
  /\ lastCall' = "ImplicitStepComplete"
  /\ UNCHANGED <<solution, scalingFactor, localCheck, globalCheck,
                 systemLog, m_numNewtonIterations, cycleNumber>>
  /\ \E r \in NonlinearImplicitStepReturns :
        /\ dt_return' = r
        /\ solverStepReturn' = SolverStepReturn(StepDt, r)
  /\ StepFrame

NextStep ==
  \/ CallImplicitStepSetup /\ UNCHANGED <<aperVars, fluxVars, mapVars, optionVars>>
  \/ CallAssembleSystem /\ UNCHANGED <<aperVars, fluxVars, mapVars, optionVars>>
  \/ CallSolveSystem /\ UNCHANGED <<aperVars, fluxVars, mapVars, optionVars>>
  \/ StepCheckSystemSolution /\ UNCHANGED <<aperVars, fluxVars, mapVars, optionVars>>
  \/ CallApplySystemSolution /\ UNCHANGED <<aperVars, fluxVars, mapVars, optionVars>>
  \/ CallUpdateState /\ UNCHANGED <<aperVars, fluxVars, mapVars, optionVars>>
  \/ CallResetStateToBeginningOfStep
       /\ UNCHANGED <<aperVars, fluxVars, mapVars, optionVars>>
  \/ CallImplicitStepComplete /\ UNCHANGED <<aperVars, fluxVars, mapVars, optionVars>>

SpecStep == InitStep /\ [][NextStep]_vars

-----------------------------------------------------------------------------
(* FlowSolverBase::SetTimeIntegrationOption *)

timeIntegrationOption ==
  {SteadyState, ImplicitTransient, ExplicitTransient, InertialTransient}

\* a version that falls back to SteadyState for a string it does not know
SetTimeIntegrationOptionDefaulting(option, stringVal) ==
  IF stringVal = "ImplicitTransient"
  THEN [option |-> ImplicitTransient, error |-> NoVal]
  ELSE IF stringVal = "ExplicitTransient"
  THEN [option |-> ExplicitTransient, error |-> NoVal]
  ELSE IF stringVal = "InertialTransient"
  THEN [option |-> InertialTransient, error |-> NoVal]
  ELSE [option |-> SteadyState, error |-> NoVal]

\* the option afterwards, option being the stored one, and the error raised
SetTimeIntegrationOption(option, stringVal) ==
  IF stringVal = "ImplicitTransient"
  THEN [option |-> ImplicitTransient, error |-> NoVal]
  ELSE IF stringVal = "ExplicitTransient"
  THEN [option |-> ExplicitTransient, error |-> NoVal]
  ELSE IF stringVal = "InertialTransient"
  THEN [option |-> InertialTransient, error |-> NoVal]
  ELSE IF stringVal = "SteadyState"
  THEN [option |-> SteadyState, error |-> NoVal]
  ELSE [option |-> option,
        error |-> "Invalid time integration option for flow solver"]

\* the strings drawn: the four names, and names that differ from them in
\* case, by a missing or added part, or are empty
OptionStrings ==
  {"ImplicitTransient", "ExplicitTransient", "InertialTransient",
   "SteadyState", "implicitTransient", "Implicit", "SteadyState ",
   "Transient", ""}

MaxOptionCalls == 3

\* the option is whatever the constructor left
InitOption ==
  /\ m_timeIntegrationOption \in timeIntegrationOption
  /\ optionCalls = <<>>
  /\ optionError = NoVal
  /\ AperIdle /\ FluxIdle /\ MapIdle /\ CheckIdle /\ DamageIdle
  /\ StepIdle

\* a call; GEOS_ERROR ends the run
CallSetTimeIntegrationOption ==
  /\ optionError = NoVal
  /\ Len(optionCalls) < MaxOptionCalls
  /\ \E stringVal \in OptionStrings :
        \E r \in {SetTimeIntegrationOption(m_timeIntegrationOption,
                                           stringVal)} :
           /\ m_timeIntegrationOption' = r.option
           /\ optionError' = r.error
           /\ optionCalls' = Append(optionCalls, stringVal)

NextOption ==
  CallSetTimeIntegrationOption
    /\ UNCHANGED <<aperVars, fluxVars, mapVars, checkVars, damageVars,
                   stepVars>>

SpecOption == InitOption /\ [][NextOption]_vars

-----------------------------------------------------------------------------
(* Properties of the aperture integration rules, under SpecAper *)

AllRulesCalled == \A o \in IntegrationOptions : aperTerm[o] # NoVal

\* C6: when aper == aper0 == a, each of the rules 0, 1 and 2 returns the
\* aperture term a*a*a, so the three agree.
C6_SameAperTerm ==
  aper = aper0 =>
    \A o \in IntegrationOptions :
       aperTerm[o] # NoVal => aperTerm[o] = RMul(RMul(aper, aper), aper)

C6_Witness == aper = aper0 /\ aper = Rat(3, AperScale) /\ AllRulesCalled

\* C7 as stated: when aper == aper0 the three rules return the same
\* derivative dAperTerm_dAper.
C7_SameDerivative ==
  (aper = aper0 /\ AllRulesCalled) =>
    /\ dAperTerm_dAper[0] = dAperTerm_dAper[1]
    /\ dAperTerm_dAper[1] = dAperTerm_dAper[2]

\* C7 amended: when aper == aper0 == a the rules 0, 1 and 2 return the
\* derivatives 0, (3/2)*a*a and 3*a*a, which agree only for a == 0.
C7_DerivativesAtDegeneratePoint ==
  (aper = aper0 /\ AllRulesCalled) =>
    /\ dAperTerm_dAper[0] = Zero
    /\ dAperTerm_dAper[1] = RMul(Rat(3, 2), RMul(aper, aper))
    /\ dAperTerm_dAper[2] = RMul(R(3), RMul(aper, aper))
    /\ (dAperTerm_dAper[0] = dAperTerm_dAper[1] <=> aper = Zero)
    /\ (dAperTerm_dAper[1] = dAperTerm_dAper[2] <=> aper = Zero)

C7_Witness == aper = aper0 /\ aper = Rat(1, AperScale) /\ AllRulesCalled

-----------------------------------------------------------------------------
(* Properties of the flux kernels, under SpecFlux *)

TwoPointRan == kernel \in {"cross", "same"}
JunctionRan == kernel = "junction"
Ran == TwoPointRan \/ JunctionRan

\* the total potential pres + dPres of the cell in slot s
CellPotential(s) ==
  RAdd(pres[stencilElementIndices[s]], dPres[stencilElementIndices[s]])

OverrideFired == \E m \in DOMAIN pairLog : pairLog[m].tip

\* C1: both two-point Compute variants return flux[1] == -flux[0].
C1_TwoPointAntisymmetric ==
  TwoPointRan => flux[1] = RNeg(flux[0])

C1_Witness ==
  /\ kernel = "same"
  /\ flux[0] # Zero
  /\ gravCoef[stencilElementIndices[0]] # gravCoef[stencilElementIndices[1]]

\* C2: when the tip override does not fire, every pair (k0, k1) of
\* ComputeJunction adds +fluxVal to flux[k0] and -fluxVal to flux[k1] and
\* nothing elsewhere, and the sum of flux over the slots is zero.
C2_JunctionSumsToZero ==
  (JunctionRan /\ ~OverrideFired) =>
    /\ \A m \in DOMAIN pairLog :
          \A s \in Slots(numFluxElems) :
             pairLog[m].fluxAdd[s] =
               IF s = pairLog[m].k[1] THEN pairLog[m].fluxVal
               ELSE IF s = pairLog[m].k[2] THEN RNeg(pairLog[m].fluxVal)
               ELSE Zero
    /\ RSum(flux, numFluxElems) = Zero

C2_Witness ==
  /\ JunctionRan
  /\ ~OverrideFired
  /\ numFluxElems = 3
  /\ TipGateOpen(tipLoc, viscosity)
  /\ \A s \in Slots(numFluxElems) : flux[s] # Zero

\* C3: when the tip override fires for a pair, what the pair adds to the
\* tip element's slot is the negation of what it adds to the channel
\* element's slot.
C3_OverrideConservesMass ==
  JunctionRan =>
    \A m \in DOMAIN pairLog :
       pairLog[m].tip =>
         pairLog[m].fluxAdd[pairLog[m].tipElmtIndex] =
           RNeg(pairLog[m].fluxAdd[pairLog[m].channelElmtIndex])

\* C4: with zero gravity coefficients on both cells and weights (T, -T),
\* flux[0] == dt * M * T * (p1 - p2), M the mobility of cell 0 when
\* p1 >= p2 and of cell 1 otherwise.
C4_ZeroGravityFlux ==
  (/\ TwoPointRan
   /\ gravCoef[stencilElementIndices[0]] = Zero
   /\ gravCoef[stencilElementIndices[1]] = Zero
   /\ stencilWeights[1] = RNeg(stencilWeights[0])) =>
    flux[0] =
      RMul(RMul(RMul(dt,
                     IF RGe(CellPotential(0), CellPotential(1))
                     THEN mob[stencilElementIndices[0]]
                     ELSE mob[stencilElementIndices[1]]),
                stencilWeights[0]),
           RSub(CellPotential(0), CellPotential(1)))

C4_Witness ==
  /\ TwoPointRan
  /\ gravCoef[stencilElementIndices[0]] = Zero
  /\ gravCoef[stencilElementIndices[1]] = Zero
  /\ stencilWeights[1] = RNeg(stencilWeights[0])
  /\ RLt(CellPotential(0), CellPotential(1))
  /\ mob[stencilElementIndices[0]] # mob[stencilElementIndices[1]]
  /\ dt # One

\* C5: in the two Compute variants and in every pair of ComputeJunction the
\* upwind slot is slot 0 of the pair when the potential difference is >= 0
\* (0 included) and slot 1 when it is negative, and the mobility and its
\* derivative are those of that slot's cell.
C5_UpwindSlot ==
  Ran =>
    \A m \in DOMAIN pairLog :
       /\ pairLog[m].k_up = (IF RGe(pairLog[m].potDif, Zero) THEN 0 ELSE 1)
       /\ pairLog[m].ei_up =
            stencilElementIndices[pairLog[m].k[pairLog[m].k_up + 1]]
       /\ pairLog[m].mobility = mob[pairLog[m].ei_up]
       /\ pairLog[m].dMobility_dP = dMob_dPres[pairLog[m].ei_up]

\* the tie: a zero potential difference between cells of different mobility
C5_Witness ==
  /\ Ran
  /\ \E m \in DOMAIN pairLog :
        /\ pairLog[m].potDif = Zero
        /\ pairLog[m].k_up = 0
        /\ mob[stencilElementIndices[pairLog[m].k[1]]] #
             mob[stencilElementIndices[pairLog[m].k[2]]]

-----------------------------------------------------------------------------
(* Properties of the phase-to-row map, under SpecMap *)

Initialized == initialization # "pending"

\* the phase named name has the residual row row
PhaseHasRow(name, row) ==
  \A ip \in 0 .. (NUM_PHASES - 1) :
     phaseName(fluidPhaseNames, ip) = name => m_phaseToRow[ip] = row

\* C10 as stated: with fluid phases (water, oil) and relperm phases
\* (oil, water) InitializePreSubGroups succeeds and maps water to row 0
\* and oil to row 1.
C10_SwappedRelPermNamesSucceed ==
  (/\ Initialized
   /\ fluidPhaseNames = <<"water", "oil">>
   /\ relPermPhaseNames = <<"oil", "water">>) =>
    /\ initialization = "done"
    /\ PhaseHasRow("water", 0)
    /\ PhaseHasRow("oil", 1)

\* C10 amended: with fluid phases (water, oil) and relperm phases
\* (water, oil), the same names in the same order, InitializePreSubGroups
\* succeeds and maps water to row 0 and oil to row 1; with relperm phases
\* (oil, water) it stops with the phase-mismatch error and no map.
C10_MatchingNamesSucceed ==
  (Initialized /\ fluidPhaseNames = <<"water", "oil">>) =>
    /\ relPermPhaseNames = <<"water", "oil">> =>
         /\ initialization = "done"
         /\ DOMAIN m_phaseToRow = 0 .. (NUM_PHASES - 1)
         /\ PhaseHasRow("water", 0)
         /\ PhaseHasRow("oil", 1)
    /\ relPermPhaseNames = <<"oil", "water">> =>
         /\ initialization = "phase does not match"
         /\ m_phaseToRow = <<>>

C10_Witness ==
  /\ initialization = "done"
  /\ fluidPhaseNames = <<"water", "oil">>
  /\ relPermPhaseNames = <<"water", "oil">>
  /\ m_phaseToRow[0] = WETTING
  /\ m_phaseToRow[1] = NONWETTING

AcceptedPairs ==
  {<<"oil", "gas">>, <<"gas", "oil">>, <<"water", "oil">>, <<"oil", "water">>}

RelPermMissing == relPermPhaseNames = <<>>

PhaseCountWrong ==
  Len(fluidPhaseNames) # 2 \/ Len(fluidPhaseNames) # Len(relPermPhaseNames)

PhaseNamesDiffer ==
  \E ip \in 1 .. Len(fluidPhaseNames) :
     ip \in DOMAIN relPermPhaseNames
       /\ fluidPhaseNames[ip] # relPermPhaseNames[ip]

PairNotAccepted == \A pair \in AcceptedPairs : fluidPhaseNames # pair

\* C11: InitializePreSubGroups ends in an error and leaves m_phaseToRow
\* unpopulated when the relperm model is missing, when the fluid phase
\* count is not 2 or differs from the relperm phase count, when the names
\* differ at a phase index, or when the fluid pair is none of (oil,gas),
\* (gas,oil), (water,oil), (oil,water).
C11_ConfigurationErrors ==
  (/\ Initialized
   /\ \/ RelPermMissing
      \/ PhaseCountWrong
      \/ PhaseNamesDiffer
      \/ PairNotAccepted) =>
    /\ initialization # "done"
    /\ m_phaseToRow = <<>>

\* two matching names that are no accepted pair
C11_Witness ==
  /\ Initialized
  /\ fluidPhaseNames = <<"water", "gas">>
  /\ relPermPhaseNames = <<"water", "gas">>
  /\ initialization = "accepted phase names are water, oil, and gas"
  /\ m_phaseToRow = <<>>

\* C12: when InitializePreSubGroups completes without error, m_phaseToRow
\* maps the phase indices {0, 1} one-to-one onto {WETTING, NONWETTING},
\* water being the wetting phase against oil and oil against gas.
C12_PhaseToRowBijection ==
  initialization = "done" =>
    /\ DOMAIN m_phaseToRow = 0 .. (NUM_PHASES - 1)
    /\ {m_phaseToRow[ip] : ip \in DOMAIN m_phaseToRow} =
         {WETTING, NONWETTING}
    /\ m_phaseToRow[0] # m_phaseToRow[1]
    /\ PhaseHasRow("water", WETTING)
    /\ PhaseHasRow("gas", NONWETTING)
    /\ PhaseHasRow("oil",
                   IF "water" \in Range(fluidPhaseNames)
                   THEN NONWETTING ELSE WETTING)

C12_Witness ==
  /\ initialization = "done"
  /\ fluidPhaseNames = <<"gas", "oil">>
  /\ m_phaseToRow[0] = NONWETTING
  /\ m_phaseToRow[1] = WETTING

-----------------------------------------------------------------------------
(* Properties of the bounds check, under SpecCheck *)

Checked == scalingFactor # Zero

CandidatePressure(ei) ==
  RAdd(RAdd(m_pressure[ei], m_deltaPressure[ei]),
       RMul(scalingFactor, solution[ei][DPRES]))

CandidateSaturation(ei) ==
  RAdd(RAdd(m_phaseSat[ei][0], m_deltaPhaseSat[ei][0]),
       RMul(scalingFactor, solution[ei][DSAT]))

CandidateViolates(ei) ==
  \/ RLt(CandidatePressure(ei), Zero)
  \/ RLt(CandidateSaturation(ei), Zero)
  \/ RGt(CandidateSaturation(ei), One)

\* C8: CheckSystemSolution returns 0 on every rank when the candidate
\* pressure pres + dPres + scalingFactor*solution of some cell is < 0 or
\* its candidate saturation is < 0 or > 1, and 1 on every rank when no
\* cell violates; the value returned is the minimum of the ranks'
\* localCheck.
C8_RejectedOnEveryRank ==
  Checked =>
    \A r \in Ranks :
       /\ globalCheck[r] =
            (IF \E ei \in Cells : CandidateViolates(ei) THEN 0 ELSE 1)
       /\ \A r2 \in Ranks : globalCheck[r] <= localCheck[r2]
       /\ \E r2 \in Ranks : globalCheck[r] = localCheck[r2]

\* one cell, owned by rank 1 and ghosted on rank 0, exceeds saturation 1:
\* rank 0 finds nothing and still returns 0
C8_Witness ==
  /\ Checked
  /\ elemOwner[0] = 1
  /\ 0 \in elemGhosted[0]
  /\ RGt(CandidateSaturation(0), One)
  /\ ~RLt(CandidatePressure(0), Zero)
  /\ \A ei \in Cells \ {0} : ~CandidateViolates(ei)
  /\ localCheck[0] = 1
  /\ globalCheck[0] = 0

-----------------------------------------------------------------------------
(* Properties of the strain-energy history, under SpecDamage *)

RMax(x, y) == IF RGt(x, y) THEN x ELSE y

\* C9: over any sequence of stress updates and calls, the history
\* m_strainEnergyDensity(k, q) of no point decreases, and a call returns
\* and stores the maximum of the stored value and its candidate.
C9_HistoryNeverDecreases ==
  [][/\ \A p \in Points :
          RGe(m_strainEnergyDensity'[p], m_strainEnergyDensity[p])
     /\ damageCall' # damageCall =>
          /\ damageCall'[1].result =
               RMax(m_strainEnergyDensity[<<damageCall'[1].k,
                                            damageCall'[1].q>>],
                    damageCall'[1].sed)
          /\ m_strainEnergyDensity'[<<damageCall'[1].k, damageCall'[1].q>>] =
               damageCall'[1].result]_vars

\* a call under compression whose candidate is below the stored value
C9_Witness ==
  /\ damageCall # <<>>
  /\ RLt(damageCall[1].sed, damageCall[1].result)
  /\ RGt(damageCall[1].sed, Zero)
  /\ m_strainEnergyDensity[<<damageCall[1].k, damageCall[1].q>>] =
       damageCall[1].result
  /\ RLt(m_stress[<<damageCall[1].k, damageCall[1].q>>][1], Zero)

-----------------------------------------------------------------------------
(* Properties of the tip override, under SpecFlux *)

\* an element having a trailing face in its face list
HasTrailingFace(e) == \E f \in Range(faceMap[e]) : f \in trailingFaces

\* the cells of the pair that are tip elements
TipCellsOf(p) ==
  {j \in {1, 2} : HasTrailingFace(stencilElementIndices[p.k[j]])}

\* the pair added its standard flux and derivatives, and nothing else
StandardAdds(p) ==
  /\ \A s \in Slots(numFluxElems) :
        p.fluxAdd[s] =
          IF s = p.k[1] THEN p.standard.fluxVal
          ELSE IF s = p.k[2] THEN RNeg(p.standard.fluxVal)
          ELSE Zero
  /\ \A r \in Slots(numFluxElems), c \in Slots(numFluxElems) :
        /\ p.jacobianAdd[r][c] =
             IF c \notin {p.k[1], p.k[2]} THEN Zero
             ELSE IF r = p.k[1]
             THEN p.standard.dFlux_dP[IF c = p.k[1] THEN 1 ELSE 2]
             ELSE IF r = p.k[2]
             THEN RNeg(p.standard.dFlux_dP[IF c = p.k[1] THEN 1 ELSE 2])
             ELSE Zero
        /\ p.apertureAdd[r][c] =
             IF c \notin {p.k[1], p.k[2]} THEN Zero
             ELSE IF r = p.k[1]
             THEN p.standard.dFlux_dAper[IF c = p.k[1] THEN 1 ELSE 2]
             ELSE IF r = p.k[2]
             THEN RNeg(p.standard.dFlux_dAper[IF c = p.k[1] THEN 1 ELSE 2])
             ELSE Zero

\* C20: in ComputeJunction the tip override is applied to a pair only if
\* the tip location exceeds one mesh size, the viscosity is at least 2.0e-3
\* and exactly one of the two cells of the pair is a tip element (has a
\* trailing face in its face list); every other pair receives the standard
\* flux, pressure derivatives and aperture derivatives.
C20_OverrideOnlyOnTipPair ==
  JunctionRan =>
    \A m \in DOMAIN pairLog :
       /\ pairLog[m].tip =>
            /\ RGt(tipLoc, MeshSize)
            /\ RGe(viscosity, ViscosityThreshold)
            /\ Cardinality(TipCellsOf(pairLog[m])) = 1
       /\ ~pairLog[m].tip => StandardAdds(pairLog[m])

\* the same for the connections of two elements
C20_TwoElementConnections ==
  (JunctionRan /\ numFluxElems = 2) =>
    \A m \in DOMAIN pairLog :
       /\ pairLog[m].tip =>
            /\ RGt(tipLoc, MeshSize)
            /\ RGe(viscosity, ViscosityThreshold)
            /\ Cardinality(TipCellsOf(pairLog[m])) = 1
       /\ ~pairLog[m].tip => StandardAdds(pairLog[m])

\* the override applied to a pair neither cell of which is a tip element
C20_OverrideWithoutTipCell ==
  /\ JunctionRan
  /\ \E m \in DOMAIN pairLog :
        pairLog[m].tip /\ TipCellsOf(pairLog[m]) = {}

-----------------------------------------------------------------------------
(* Properties of the time step, under SpecStep *)

Owned(ei) == ei \in SubRegion /\ m_elemGhostRank(ei) < 0

\* C13: after ImplicitStepSetup the deltas are zero in every cell and, in
\* every non-ghost cell, porosityOld = referencePorosity * pvMult and
\* phaseDensOld = phaseDens, pvMult and phaseDens being the values of the
\* state update at the base pressure, after the deltas were zeroed.
C13_SetupSnapshotsAfterReset ==
  lastCall = "ImplicitStepSetup" =>
    \A ei \in SubRegion :
       /\ m_deltaPressure[ei] = Zero
       /\ \A ip \in Phases : m_deltaPhaseSat[ei][ip] = Zero
       /\ Owned(ei) =>
            /\ m_pvMult[ei] = StateUpdatePointPressure(m_pressure[ei])
            /\ m_phaseDens[ei] = PointUpdate(m_pressure[ei])
            /\ m_porosityOld[ei] = RMul(m_porosityRef(ei), m_pvMult[ei])
            /\ \A ip \in Phases :
                  m_phaseDensOld[ei][ip] = m_phaseDens[ei][ip]

\* the setup of a second step, the first having moved the pressure of an
\* owned cell
C13_Witness ==
  /\ lastCall = "ImplicitStepSetup"
  /\ cycleNumber = 2
  /\ \E ei \in SubRegion :
        /\ Owned(ei)
        /\ m_pressure[ei] # R(1)
        /\ m_porosityOld[ei] = RMul(m_porosityRef(ei), m_pvMult[ei])

\* a step in which ImplicitStepComplete runs
StepCompletes ==
  /\ solverStep = "NonlinearImplicitStep"
  /\ solverStep' = "idle"
  /\ lastCall' = "ImplicitStepComplete"

\* C14: ImplicitStepComplete folds the deltas into the base fields: in every
\* cell the pressure afterwards is the pressure before plus deltaPressure,
\* phaseSat[ip] afterwards is phaseSat[ip] before plus deltaPhaseSat[ip]
\* for both phases, and the deltas are left as they were.
C14_CompleteFoldsDeltas ==
  [][StepCompletes =>
       /\ \A ei \in SubRegion :
             /\ m_pressure'[ei] = RAdd(m_pressure[ei], m_deltaPressure[ei])
             /\ \A ip \in Phases :
                   m_phaseSat'[ei][ip] =
                     RAdd(m_phaseSat[ei][ip], m_deltaPhaseSat[ei][ip])
       /\ m_deltaPressure' = m_deltaPressure
       /\ m_deltaPhaseSat' = m_deltaPhaseSat]_vars

\* a completed step with deltas to fold
C14_Witness ==
  /\ lastCall = "ImplicitStepComplete"
  /\ \E ei \in SubRegion :
        /\ m_deltaPressure[ei] # Zero
        /\ m_deltaPhaseSat[ei][1] # Zero
        /\ m_pressure[ei] = RAdd(R(1), m_deltaPressure[ei])

\* C15: each step completion (ImplicitStepComplete) invokes the update of
\* the strain-energy history of the solid exactly once, on the final state
\* of the step: the completion leaves the record and the result of a call
\* of calculateActiveStrainEnergyDensity on that state.
C15_CompletionUpdatesHistory ==
  [][StepCompletes =>
       \E p \in Points :
          \E r \in {calculateActiveStrainEnergyDensity(p[1], p[2])} :
             /\ damageCall' = <<[k |-> p[1], q |-> p[2], sed |-> r.sed,
                                 result |-> r.result]>>
             /\ m_strainEnergyDensity' = r.m_strainEnergyDensity]_vars

\* C15, amended: step completion does not invoke the update of the
\* strain-energy history: it makes no call of
\* calculateActiveStrainEnergyDensity and leaves the history as it was.
C15_CompletionLeavesHistory ==
  [][StepCompletes =>
       /\ damageCall' = damageCall
       /\ m_strainEnergyDensity' = m_strainEnergyDensity]_vars

\* a completed step, no call made, at a point whose candidate energy
\* exceeds the stored history
C15_Witness ==
  /\ lastCall = "ImplicitStepComplete"
  /\ damageCall = <<>>
  /\ \E p \in Points :
        RGt(ActiveStrainEnergyDensity(p[1], p[2]), m_strainEnergyDensity[p])

\* the positions in the log of the operations named, by whom
EventsAt(ops) == {i \in DOMAIN systemLog : systemLog[i].op \in ops}

AddsBy(by) ==
  {i \in EventsAt({"rhs.add", "matrix.add"}) : systemLog[i].by = by}

Diagnostics ==
  EventsAt({"print matrix", "print rhs", "matrix.write", "rhs.write"})

\* C16: in every call of AssembleSystem the matrix and the right-hand side
\* are opened first, the accumulation terms are assembled before the flux
\* terms, every add lies between the open and the close of what it adds
\* to, and both are closed before any print or file dump and when the call
\* returns.
C16_AssemblyOrder ==
  Len(systemLog) > 0 =>
    /\ {systemLog[1].op, systemLog[2].op} = {"matrix.open", "rhs.open"}
    /\ \A i \in AddsBy("AssembleAccumulationTerms") :
          \A j \in AddsBy("AssembleFluxTerms") : i < j
    /\ \A x \in {"matrix", "rhs"} :
          \E o \in EventsAt({x \o ".open"}), c \in EventsAt({x \o ".close"}) :
             /\ EventsAt({x \o ".open"}) = {o}
             /\ EventsAt({x \o ".close"}) = {c}
             /\ o < c
             /\ \A i \in EventsAt({x \o ".add"}) : o < i /\ i < c
             /\ \A d \in Diagnostics : c < d

\* a call that assembled both kinds of terms and dumped the system
C16_Witness ==
  /\ lastCall = "AssembleSystem"
  /\ AddsBy("AssembleAccumulationTerms") # {}
  /\ AddsBy("AssembleFluxTerms") # {}
  /\ EventsAt({"matrix.write"}) # {}

\* the adds of AssembleAccumulationTerms for a cell, by operation
AccumulationAdds(ei, op) ==
  {i \in AddsBy("AssembleAccumulationTerms") :
     systemLog[i].ei = ei /\ systemLog[i].op = op}

\* C17: AssembleAccumulationTerms adds exactly one residual and one
\* Jacobian contribution for each non-ghost cell and none for a ghost cell;
\* the rows of cell ei are dofNumber[ei] + phaseToRow[ip], the columns
\* dofNumber[ei] + DPRES and dofNumber[ei] + DSAT, and no contribution of a
\* cell touches the rows or columns of another cell.
C17_OneContributionPerOwnedCell ==
  Len(systemLog) > 0 =>
    /\ \A ei \in SubRegion :
          \A op \in {"rhs.add", "matrix.add"} :
             Cardinality(AccumulationAdds(ei, op)) =
               (IF m_elemGhostRank(ei) < 0 THEN 1 ELSE 0)
    /\ \A i \in AddsBy("AssembleAccumulationTerms") :
          \E e \in {systemLog[i]} :
             /\ e.ei \in SubRegion
             /\ e.rows = [ip \in Phases |-> dofNumber(e.ei) + m_phaseToRow[ip]]
             /\ e.op = "matrix.add" =>
                  /\ e.cols[DPRES] = dofNumber(e.ei) + DPRES
                  /\ e.cols[DSAT] = dofNumber(e.ei) + DSAT
                  /\ DOMAIN e.cols = {DPRES, DSAT}
             /\ \A j \in AddsBy("AssembleAccumulationTerms") :
                   systemLog[j].ei # e.ei =>
                     /\ Range(systemLog[j].rows) \cap Range(e.rows) = {}
                     /\ Range(systemLog[j].cols) \cap Range(e.cols) = {}
                     /\ Range(systemLog[j].cols) \cap Range(e.rows) = {}

\* an assembly on a rank that holds an owned cell and a ghost cell
C17_Witness ==
  /\ lastCall = "AssembleSystem"
  /\ \E ei \in SubRegion, ej \in SubRegion :
        /\ m_elemGhostRank(ei) < 0
        /\ m_elemGhostRank(ej) >= 0
        /\ AccumulationAdds(ei, "matrix.add") # {}
        /\ AccumulationAdds(ej, "matrix.add") = {}

\* an assembly on a rank that owns two cells
C17_WitnessTwoOwned ==
  /\ lastCall = "AssembleSystem"
  /\ \E ei \in SubRegion, ej \in SubRegion :
        /\ ei # ej
        /\ AccumulationAdds(ei, "rhs.add") # {}
        /\ AccumulationAdds(ej, "rhs.add") # {}

\* C18: UpdateState is idempotent for unchanged inputs: a call leaves
\* newPhaseSat = phaseSat + deltaPhaseSat and the fluid, solid, relperm and
\* mobility outputs such that another call, the pressure, deltaPressure,
\* phaseSat and deltaPhaseSat being the same, changes none of them; and it
\* never writes pressure, deltaPressure, phaseSat or deltaPhaseSat.
C18_UpdateStateIdempotent ==
  [][lastCall' = "UpdateState" =>
       /\ UNCHANGED <<m_pressure, m_deltaPressure, m_phaseSat,
                      m_deltaPhaseSat>>
       /\ \A a \in SubRegion : \A ip \in Phases :
             m_newPhaseSat'[a][ip] =
               RAdd(m_phaseSat[a][ip], m_deltaPhaseSat[a][ip])
       /\ \E s \in {Fields'} : UpdateState(s) = s]_vars

\* a call with a saturation update pending
C18_Witness ==
  /\ lastCall = "UpdateState"
  /\ \E a \in SubRegion :
        /\ m_deltaPhaseSat[a][0] # Zero
        /\ m_newPhaseSat[a][0] # m_phaseSat[a][0]
        /\ m_phaseMob[a] =
             PhaseMobilityKernel(m_phaseDens[a], phaseRelPerm[a])

\* a step in which ImplicitStepSetup runs
StepSetsUp ==
  /\ solverStep = "idle"
  /\ solverStep' = "NonlinearImplicitStep"
  /\ lastCall' = "ImplicitStepSetup"

\* C19: porosityOld and phaseDensOld are written only by BackupFields
\* during ImplicitStepSetup: no call of AssembleSystem, SolveSystem,
\* CheckSystemSolution, UpdateState, ResetStateToBeginningOfStep or
\* ImplicitStepComplete changes them, and BackupFields leaves the values of
\* the ghost cells as they were.
C19_OldFieldsFrame ==
  [][/\ ~StepSetsUp =>
          /\ m_porosityOld' = m_porosityOld
          /\ m_phaseDensOld' = m_phaseDensOld
     /\ StepSetsUp =>
          \A ei \in Cells :
             ~Owned(ei) =>
                /\ m_porosityOld'[ei] = m_porosityOld[ei]
                /\ m_phaseDensOld'[ei] = m_phaseDensOld[ei]]_vars

\* a step set up on a rank with an owned cell and a ghost cell, and
\* functions of the Newton loop called since
C19_Witness ==
  /\ solverStep = "NonlinearImplicitStep"
  /\ lastCall \in {"AssembleSystem", "SolveSystem", "CheckSystemSolution",
                   "UpdateState", "ResetStateToBeginningOfStep"}
  /\ m_numNewtonIterations > 0
  /\ \E ei \in SubRegion, ej \in SubRegion :
        /\ Owned(ei)
        /\ m_porosityOld[ei] # Zero
        /\ ~Owned(ej)
        /\ m_porosityOld[ej] = Zero
        /\ m_pvMult[ej] # Zero

-----------------------------------------------------------------------------
(* Properties of the pair weight of ComputeJunction, under SpecFlux *)

\* stencilWeights[k]*aperTerm[k] of the slot s, from the pair's record
WeightedAperTerm(p, s) == RMul(stencilWeights[s], p.aperTerm[s + 1])

\* the sum of the weighted aperture terms over all flux elements
WeightedAperSum(p) ==
  RSum([s \in Slots(numFluxElems) |-> WeightedAperTerm(p, s)], numFluxElems)

HarmonicMean(x, y) == RDiv(RMul(R(2), RMul(x, y)), RAdd(x, y))
ArithmeticMean(x, y) == RMul(Half, RAdd(x, y))

\* the derivative of HarmonicMean(x, y) in x
dHarmonicMean(x, y) ==
  RDiv(RMul(R(2), RMul(y, y)), RMul(RAdd(x, y), RAdd(x, y)))

\* the product of the two weighted terms over the sum of all of them, and
\* its derivative in the aperture of slot s
ProductOverSum(p) ==
  RDiv(RMul(WeightedAperTerm(p, p.k[1]), WeightedAperTerm(p, p.k[2])),
       WeightedAperSum(p))

dProductOverSum(p, s) ==
  RMul(RMul(RSub(RDiv(One, p.aperTerm[s + 1]),
                 RDiv(stencilWeights[s], WeightedAperSum(p))),
            ProductOverSum(p)),
       p.dAperTerm_dAper[s + 1])

Blend(c, h, a) == RAdd(RMul(c, h), RMul(RSub(One, c), a))

\* C21 as stated: the weight of every pair is c*H + (1-c)*A and its
\* aperture derivatives are c*dH + (1-c)*dA, with H the harmonic mean and A
\* the arithmetic mean of the two weighted aperture terms.
C21_BlendOfMeans ==
  JunctionRan =>
    \A m \in DOMAIN pairLog :
       \E p \in {pairLog[m]} :
         \E x \in {WeightedAperTerm(p, p.k[1])} :
           \E y \in {WeightedAperTerm(p, p.k[2])} :
              /\ p.weight = Blend(meanPermCoeff, HarmonicMean(x, y),
                                  ArithmeticMean(x, y))
              /\ p.dWeight_dAper[1] =
                   RMul(Blend(meanPermCoeff, dHarmonicMean(x, y), Half),
                        RMul(stencilWeights[p.k[1]],
                             p.dAperTerm_dAper[p.k[1] + 1]))
              /\ p.dWeight_dAper[2] =
                   RMul(Blend(meanPermCoeff, dHarmonicMean(y, x), Half),
                        RMul(stencilWeights[p.k[2]],
                             p.dAperTerm_dAper[p.k[2] + 1]))

\* C21: the weight of every pair is c*H + (1-c)*A and its aperture
\* derivatives are c*dH + (1-c)*dA with the same c = meanPermCoeff, where H
\* is the product of the two weighted aperture terms over the sum of the
\* weighted aperture terms of all flux elements and A is a quarter of the
\* sum of the two weighted aperture terms; c = 1 gives H and c = 0 gives A.
C21_BlendOfHarmonicAndQuarterSum ==
  JunctionRan =>
    \A m \in DOMAIN pairLog :
       \E p \in {pairLog[m]} :
         \E x \in {WeightedAperTerm(p, p.k[1])} :
           \E y \in {WeightedAperTerm(p, p.k[2])} :
              /\ p.weight = Blend(meanPermCoeff, ProductOverSum(p),
                                  RMul(Quarter, RAdd(x, y)))
              /\ \A i \in 1 .. 2 :
                    p.dWeight_dAper[i] =
                      Blend(meanPermCoeff, dProductOverSum(p, p.k[i]),
                            RMul(Quarter,
                                 RMul(stencilWeights[p.k[i]],
                                      p.dAperTerm_dAper[p.k[i] + 1])))
              /\ meanPermCoeff = One => p.weight = ProductOverSum(p)
              /\ meanPermCoeff = Zero =>
                   p.weight = RMul(Quarter, RAdd(x, y))

\* a properly blended pair of cells of different aperture and weight
C21_Witness ==
  /\ JunctionRan
  /\ meanPermCoeff = Half
  /\ \E m \in DOMAIN pairLog :
        /\ pairLog[m].aperTerm[pairLog[m].k[1] + 1] #
             pairLog[m].aperTerm[pairLog[m].k[2] + 1]
        /\ stencilWeights[pairLog[m].k[1]] # stencilWeights[pairLog[m].k[2]]
        /\ pairLog[m].weight # ProductOverSum(pairLog[m])

\* the arithmetic end of the blend on a two-element connection
C21_WitnessArithmetic ==
  /\ JunctionRan
  /\ meanPermCoeff = Zero
  /\ numFluxElems = 2
  /\ pairLog[1].weight # Zero

-----------------------------------------------------------------------------
(* Properties of the solution check within the step, under SpecStep *)

\* a step that is a call of CheckSystemSolution
StepChecks == lastCall' = "CheckSystemSolution" /\ solverStep' # "idle"

\* C22: CheckSystemSolution is a pure check: accepting or rejecting, it
\* leaves pressure, deltaPressure, phaseSat, deltaPhaseSat, the solution
\* and every old and history field unchanged, and asked again with the same
\* scaling factor it gives the same answer.
C22_CheckIsPure ==
  [][StepChecks =>
       /\ UNCHANGED <<m_pressure, m_deltaPressure, m_phaseSat,
                      m_deltaPhaseSat, solution>>
       /\ UNCHANGED <<m_porosityOld, m_phaseDensOld, m_strainEnergyDensity,
                      damageCall, m_newPhaseSat, m_pvMult, m_phaseDens,
                      phaseRelPerm, m_phaseMob>>
       /\ (lastCall = "CheckSystemSolution" /\ scalingFactor' = scalingFactor)
            => (globalCheck' = globalCheck /\ localCheck' = localCheck)]_vars

\* a candidate rejected twice with the same scaling factor, after the
\* backup of a step was taken and with a non-zero solution
C22_Witness ==
  /\ lastCall = "CheckSystemSolution"
  /\ globalCheck[commRank] = 0
  /\ scalingFactor = Half
  /\ \E ei \in Cells : solution[ei][DPRES] # Zero
  /\ \E ei \in Cells : m_porosityOld[ei] # Zero
  /\ m_numNewtonIterations = 1
  /\ \E ei \in Cells : m_deltaPressure[ei] # Zero

\* an accepted candidate that the check has left unapplied
C22_WitnessAccepted ==
  /\ lastCall = "CheckSystemSolution"
  /\ globalCheck[commRank] = 1
  /\ \E ei \in Cells : solution[ei][DPRES] # Zero
  /\ \A ei \in Cells : m_deltaPressure[ei] = Zero

-----------------------------------------------------------------------------
(* Properties of the two-point Jacobian, under SpecFlux *)

ZeroGravity ==
  /\ gravCoef[stencilElementIndices[0]] = Zero
  /\ gravCoef[stencilElementIndices[1]] = Zero

\* the potential difference of the connection without gravity
WeightedPotential ==
  RAdd(RMul(stencilWeights[0], CellPotential(0)),
       RMul(stencilWeights[1], CellPotential(1)))

\* the upwind slot the claim refers to
UpSlot == IF RGe(WeightedPotential, Zero) THEN 0 ELSE 1

\* C23: in the two-point Compute variants with zero gravity,
\* fluxJacobian[0][ke] = dt * M_up * weight[ke], plus dt * dMob_dPres_up *
\* potDif at the upwind slot only; for weights (T, -T) and zero mobility
\* derivative it is dt*M*T for cell 1 and -dt*M*T for cell 2.
C23_ZeroGravityJacobian ==
  (TwoPointRan /\ ZeroGravity) =>
    \E up \in {stencilElementIndices[UpSlot]} :
       /\ \A ke \in Slots(NUM_POINT_IN_FLUX) :
             fluxJacobian[0][ke] =
               RAdd(RMul(RMul(dt, mob[up]), stencilWeights[ke]),
                    IF ke = UpSlot
                    THEN RMul(RMul(dt, dMob_dPres[up]), WeightedPotential)
                    ELSE Zero)
       /\ (/\ stencilWeights[1] = RNeg(stencilWeights[0])
           /\ dMob_dPres[up] = Zero) =>
            /\ fluxJacobian[0][0] =
                 RMul(RMul(dt, mob[up]), stencilWeights[0])
            /\ fluxJacobian[0][1] =
                 RNeg(RMul(RMul(dt, mob[up]), stencilWeights[0]))

\* the extra term at work: slot 1 is upwind, the mobility depends on the
\* pressure and the potential difference is not zero
C23_Witness ==
  /\ TwoPointRan
  /\ ZeroGravity
  /\ UpSlot = 1
  /\ dMob_dPres[stencilElementIndices[1]] # Zero
  /\ WeightedPotential # Zero
  /\ dt # One

\* the particular case of the claim
C23_WitnessEqualWeights ==
  /\ TwoPointRan
  /\ ZeroGravity
  /\ stencilWeights[1] = RNeg(stencilWeights[0])
  /\ dMob_dPres[stencilElementIndices[UpSlot]] = Zero
  /\ fluxJacobian[0][0] # Zero

-----------------------------------------------------------------------------
(* Properties of the pairs the tip override fires for, under SpecFlux *)

\* the asymptotic flux value and its pressure derivative for the pair p
AsymptoticFlux(p) ==
  RMul(RMul(dt, mob[stencilElementIndices[p.k[p.k_up + 1]]]), TipAsymptote)

dAsymptoticFlux(p) ==
  RMul(RMul(dt, dMob_dPres[stencilElementIndices[p.k[p.k_up + 1]]]),
       TipAsymptote)

\* what the claim says of a pair the override fired for
OverrideAdds(p) ==
  /\ p.fluxVal = Zero
  /\ p.tipElmtIndex # p.channelElmtIndex
  /\ \A s \in Slots(numFluxElems) :
        p.fluxAdd[s] =
          IF s = p.channelElmtIndex THEN AsymptoticFlux(p) ELSE Zero
  /\ \A r \in Slots(numFluxElems), c \in Slots(numFluxElems) :
        /\ p.jacobianAdd[r][c] =
             IF r = p.channelElmtIndex /\ c = p.k[p.k_up + 1]
             THEN dAsymptoticFlux(p) ELSE Zero
        /\ p.apertureAdd[r][c] = Zero

\* C25: when the tip override fires for a pair, the standard flux value and
\* the standard pressure- and aperture-derivative contributions of the pair
\* are zero, the channel element's flux slot is increased by the asymptotic
\* flux value, the tip element's flux slot and Jacobian row receive nothing
\* from the pair, and the only Jacobian term added is in the channel
\* element's row at the upwind slot's column.
C25_OverrideFrame ==
  JunctionRan =>
    \A m \in DOMAIN pairLog : pairLog[m].tip => OverrideAdds(pairLog[m])

\* the same for the connections of two elements
C25_TwoElementConnections ==
  (JunctionRan /\ numFluxElems = 2) =>
    \A m \in DOMAIN pairLog : pairLog[m].tip => OverrideAdds(pairLog[m])

\* the override on a two-element connection, with a mobility that depends
\* on the pressure and the tip element upwind
C25_OverrideOnTwoElements ==
  /\ JunctionRan
  /\ numFluxElems = 2
  /\ pairLog[1].tip
  /\ pairLog[1].k[pairLog[1].k_up + 1] = pairLog[1].tipElmtIndex
  /\ dAsymptoticFlux(pairLog[1]) # Zero
  /\ pairLog[1].standard.fluxVal # Zero

\* the override of a pair whose second slot is slot 2: modifieddFlux_dP is
\* read at index 2, and the channel row receives what lies there
C25_ReadPastModified ==
  /\ JunctionRan
  /\ \E m \in DOMAIN pairLog :
        /\ pairLog[m].tip
        /\ HasTrailingFace(stencilElementIndices[pairLog[m].k[1]])
        /\ pairLog[m].channelElmtIndex = 2
        /\ pairLog[m].jacobianAdd[2][2] = R(7)

-----------------------------------------------------------------------------
(* Properties of the derivative blocks, under SpecFlux *)

\* the sum of column c of a block over the rows of the connection
ColumnSum(block, c) ==
  RSum([r \in Slots(numFluxElems) |-> block[r][c]], numFluxElems)

\* the pair's adds to a block are opposite in its two rows and zero in
\* every other row
OppositeRows(p, add) ==
  \A c \in Slots(numFluxElems) :
     /\ add[p.k[2]][c] = RNeg(add[p.k[1]][c])
     /\ \A r \in Slots(numFluxElems) \ {p.k[1], p.k[2]} : add[r][c] = Zero

\* C26: in both two-point Compute variants fluxJacobian[1][ke] is
\* -fluxJacobian[0][ke] for every slot ke; in ComputeJunction without tip
\* override each pair adds equal and opposite entries to rows k0 and k1 of
\* fluxJacobian and of dFlux_dAperture, and every column of either block
\* sums to zero.
C26_RowsAreNegations ==
  /\ TwoPointRan =>
       \A ke \in Slots(NUM_POINT_IN_FLUX) :
          fluxJacobian[1][ke] = RNeg(fluxJacobian[0][ke])
  /\ (JunctionRan /\ ~OverrideFired) =>
       /\ \A m \in DOMAIN pairLog :
             /\ OppositeRows(pairLog[m], pairLog[m].jacobianAdd)
             /\ OppositeRows(pairLog[m], pairLog[m].apertureAdd)
       /\ \A c \in Slots(numFluxElems) :
             /\ ColumnSum(fluxJacobian, c) = Zero
             /\ ColumnSum(dFlux_dAperture, c) = Zero

\* a junction of three elements with the gate closed and every entry of
\* both blocks non-zero
C26_Witness ==
  /\ JunctionRan
  /\ ~OverrideFired
  /\ numFluxElems = 3
  /\ \A r \in Slots(numFluxElems), c \in Slots(numFluxElems) :
        fluxJacobian[r][c] # Zero /\ dFlux_dAperture[r][c] # Zero

\* a two-point kernel with a non-zero Jacobian row
C26_WitnessTwoPoint ==
  /\ TwoPointRan
  /\ fluxJacobian[0][0] # Zero
  /\ fluxJacobian[0][1] # Zero

-----------------------------------------------------------------------------
(* Properties of the aperture term of ComputeJunction, under SpecFlux *)

\* other start-of-step apertures for the same elements
OtherAperture0 == [e \in Elems |-> RAdd(aperture0[e], One)]

\* no read past the two-entry arrays can have happened in the call
NoJunkRead == numFluxElems = 2 \/ ~TipGateOpen(tipLoc, viscosity)

-----------------------------------------------------------------------------
(* Properties of SolverStep, under SpecStep *)

\* C28: every SolverStep performs ImplicitStepSetup, NonlinearImplicitStep
\* and ImplicitStepComplete once each and in that order and returns the dt
\* NonlinearImplicitStep returned; ImplicitStepComplete folds the deltas
\* whatever that value is, so the base pressure at the start of the next
\* step is the base pressure plus the delta at the end of this one.
C28_SolverStepOrder ==
  [][/\ solverStep' # solverStep => (StepSetsUp \/ StepCompletes)
     /\ cycleNumber' # cycleNumber =>
          (StepSetsUp /\ cycleNumber' = cycleNumber + 1)
     /\ (lastCall' = "ImplicitStepSetup" /\ lastCall # "ImplicitStepSetup")
          => StepSetsUp
     /\ (lastCall' = "ImplicitStepComplete"
           /\ lastCall # "ImplicitStepComplete") => StepCompletes
     /\ StepSetsUp => m_pressure' = m_pressure
     /\ StepCompletes =>
          /\ dt_return' \in NonlinearImplicitStepReturns
          /\ solverStepReturn' = dt_return'
          /\ \A ei \in SubRegion :
                m_pressure'[ei] = RAdd(m_pressure[ei], m_deltaPressure[ei])
     /\ solverStep = "idle" => m_pressure' = m_pressure]_vars

\* the second step has begun from a base pressure that the first step
\* changed, after the first step returned a cut dt
C28_Witness ==
  /\ cycleNumber = 2
  /\ solverStep = "NonlinearImplicitStep"
  /\ lastCall = "ImplicitStepSetup"
  /\ solverStepReturn = RMul(Half, StepDt)
  /\ \E ei \in Cells : m_pressure[ei] # R(1)

\* a step that returned the whole dt with the deltas folded
C28_WitnessWholeDt ==
  /\ solverStep = "idle"
  /\ lastCall = "ImplicitStepComplete"
  /\ solverStepReturn = StepDt
  /\ dt_return = StepDt
  /\ \E ei \in Cells : m_pressure[ei] # R(1)

-----------------------------------------------------------------------------
(* Properties of the indices of the tip-override path, under SpecFlux *)

\* C29: in ComputeJunction every index used to read the two-entry per-pair
\* arrays ei, k and modifieddFlux_dP in the tip-override path is 0 or 1,
\* and the tip and channel slot indices are both assigned before they are
\* used.
C29_IndicesInBounds ==
  JunctionRan =>
    \A m \in DOMAIN pairLog :
       /\ pairLog[m].indexReads \subseteq {0, 1}
       /\ pairLog[m].indicesAssigned

\* the same for the connections of two elements
C29_TwoElementConnections ==
  (JunctionRan /\ numFluxElems = 2) =>
    \A m \in DOMAIN pairLog :
       /\ pairLog[m].indexReads \subseteq {0, 1}
       /\ pairLog[m].indicesAssigned

\* the classification loop of a three-element connection reads entry 2 of
\* the two-entry arrays, whether or not the override then fires
C29_ReadPastPairArrays ==
  /\ JunctionRan
  /\ numFluxElems = 3
  /\ \E m \in DOMAIN pairLog : ~pairLog[m].tip /\ 2 \in pairLog[m].indexReads

\* the override on a two-element connection: both indices assigned, all
\* reads at 0 or 1
C29_OverrideInBounds ==
  /\ JunctionRan
  /\ numFluxElems = 2
  /\ pairLog[1].tip
  /\ pairLog[1].indexReads = {0, 1}

-----------------------------------------------------------------------------
(* Properties of the time integration option, under SpecOption *)

\* the enum value a string names, for the four names
NamedOption(stringVal) ==
  CASE stringVal = "ImplicitTransient" -> ImplicitTransient
    [] stringVal = "ExplicitTransient" -> ExplicitTransient
    [] stringVal = "InertialTransient" -> InertialTransient
    [] stringVal = "SteadyState" -> SteadyState

OptionNames ==
  {"ImplicitTransient", "ExplicitTransient", "InertialTransient",
   "SteadyState"}

\* C30: SetTimeIntegrationOption sets the option to the enum value named by
\* the string for exactly the four strings ImplicitTransient,
\* ExplicitTransient, InertialTransient and SteadyState; for any other
\* string it raises an error and leaves the stored option unchanged.
C30_OptionSetOrError ==
  [][optionCalls' # optionCalls =>
       \E stringVal \in {optionCalls'[Len(optionCalls')]} :
          IF stringVal \in OptionNames
          THEN /\ m_timeIntegrationOption' = NamedOption(stringVal)
               /\ optionError' = NoVal
          ELSE /\ optionError' # NoVal
               /\ m_timeIntegrationOption' = m_timeIntegrationOption]_vars

\* a name in the wrong case rejected after the option was set to a value
\* other than the first of the enum
C30_Witness ==
  /\ Len(optionCalls) = 2
  /\ optionCalls[1] = "InertialTransient"
  /\ optionCalls[2] = "implicitTransient"
  /\ optionError # NoVal
  /\ m_timeIntegrationOption = InertialTransient

\* the four names accepted in turn
C30_WitnessAccepted ==
  /\ optionCalls = <<"ExplicitTransient", "SteadyState", "ImplicitTransient">>
  /\ optionError = NoVal
  /\ m_timeIntegrationOption = ImplicitTransient

=============================================================================
